---- MODULE Spec2Model ----
(***************************************************************************)
(* A model of the record-linkage core of physician_resolution:             *)
(* blocking, similarity scoring, classification, identity-graph building,  *)
(* the pruning pipeline, clustering, cluster quality and canonical ids.    *)
(*                                                                         *)
(* Scores and weights are floats in [0,1] in the source; here they are     *)
(* integers in ten-thousandths (0.85 is 8500), which the weighted sums of  *)
(* the source keep exact.  Products are compared without dividing          *)
(* (w * 100 < min_edge_weight * 75); a quotient is kept as the fraction    *)
(* <<numerator, denominator>>.                                             *)
(***************************************************************************)
EXTENDS Integers, Sequences, FiniteSets, TLC

VARIABLES
    pc,             \* the step of the run that executes next
    records,        \* list[PhysicianRecord] handed to the core
    config,         \* PipelineConfig and the pruning parameters of the run
    pairs,          \* get_candidate_pairs: the list of (rec1, rec2)
    match_results,  \* find_matches: the list of MatchResult
    matches,        \* get_confirmed_matches: the list of (id1, id2, weight)
    G,              \* the identity graph (nx.Graph), mutated in place
    conflicts_resolved, \* prune_npi_conflicts: the count of removed edges
    iterations,     \* prune_oversized_clusters: the loop counter
    clusters,       \* find_clusters: the list of node-id sets
    mapping,        \* assign_canonical_ids: source_id -> canonical_id
    physicians,     \* merge_all_clusters: the list of CanonicalPhysician
    report,         \* generate_cluster_report / per-cluster ClusterQuality
    error,          \* the exception that ended the run, or None
    hash_order,     \* the order in which this process iterates a set of ids
    initial_edges,  \* full_pruning_pipeline's G.number_of_edges() at its start
    edges_removed   \* prune_weak_bridges' counter of removed edges

vars == <<pc, hash_order, records, config, pairs, match_results, matches, G,
          conflicts_resolved, iterations, clusters, mapping, physicians, report,
          error, initial_edges, edges_removed>>

None == "None"

(***************************************************************************)
(* Bounds of the model.                                                    *)
(***************************************************************************)
\* The most edges an input graph of the pruning runs carries.
MaxEdges == 3

\* prune_oversized_clusters' safety limit (max_iterations = 1000 in the
\* source, pruning.py line 106), scaled to the model's graphs.
MaxIterations == 1

(***************************************************************************)
(* Sequences and sets.                                                     *)
(***************************************************************************)
Range(s) == {s[i] : i \in DOMAIN s}

RECURSIVE SumOver(_, _)
SumOver(S, f) ==
    IF S = {} THEN 0
    ELSE LET x == CHOOSE y \in S : TRUE IN f[x] + SumOver(S \ {x}, f)

SetMin(S) == CHOOSE x \in S : \A y \in S : x <= y
SetMax(S) == CHOOSE x \in S : \A y \in S : x >= y

(***************************************************************************)
(* NPI values.  A node or record attribute is None, or a string; Python    *)
(* treats None and "" as false.  An NPI is well-formed when it is exactly  *)
(* ten digits.                                                             *)
(***************************************************************************)
NpiX == "1111111111"
NpiY == "2222222222"
NpiBad == "12AB"
NpiXPadded == " 1111111111"
NpiValues == {None, NpiX, NpiY, NpiBad}

\* `if npi:`  (truthiness of an optional string)
Truthy(v) == v # None /\ v # ""

\* `len(npi) == 10 and npi.isdigit()`; the strings of the model are
\* classified by a table of their length and digit-ness.
StrLen(s) ==
    CASE s = NpiX -> 10 [] s = NpiY -> 10 [] s = NpiBad -> 4 [] s = NpiXPadded -> 11
      [] OTHER -> 0
IsDigit(s) == s \in {NpiX, NpiY}
WellFormed(v) == Truthy(v) /\ StrLen(v) = 10 /\ IsDigit(v)

(***************************************************************************)
(* The graph: nodes in insertion order, node attributes, weighted edges    *)
(* keyed by the unordered pair of their endpoints.                         *)
(***************************************************************************)
EmptyGraph == [nodes |-> <<>>, attr |-> <<>>, weight |-> <<>>]

NodeSet(g) == Range(g.nodes)
Edges(g) == DOMAIN g.weight

\* The nodes left without an edge go with the edges.
RemoveEdgesAndIsolated(g, es) ==
    LET left == (DOMAIN g.weight) \ es
    IN [nodes |-> SelectSeq(g.nodes, LAMBDA n : \E e \in left : n \in e),
        attr |-> [n \in UNION left |-> g.attr[n]],
        weight |-> [e \in left |-> g.weight[e]]]

\* G.remove_edges_from / G.remove_edge
RemoveEdges(g, es) ==
    [g EXCEPT !.weight = [e \in (DOMAIN g.weight) \ es |-> g.weight[e]]]

\* G.subgraph(cluster).edges
SubgraphEdges(g, cluster) == {e \in Edges(g) : e \subseteq cluster}

\* A BFS that stops after one level: a component is cut short.
PlainBfsShallow(es, seen, frontier) ==
    seen \cup {v \in UNION es : \E u \in frontier : {u, v} \in es}

\* networkx _plain_bfs: the nodes reachable from the frontier over es.
RECURSIVE PlainBfs(_, _, _)
PlainBfs(es, seen, frontier) ==
    IF frontier = {} THEN seen
    ELSE LET next == {v \in UNION es : \E u \in frontier : {u, v} \in es} \ seen
         IN PlainBfs(es, seen \cup next, next)

\* nx.connected_components: for every node not yet seen, in node order,
\* the set its BFS reaches.
RECURSIVE ConnectedComponentsFrom(_, _, _, _)
ConnectedComponentsFrom(g, i, seen, acc) ==
    IF i > Len(g.nodes) THEN acc
    ELSE IF g.nodes[i] \in seen THEN ConnectedComponentsFrom(g, i + 1, seen, acc)
    ELSE LET c == PlainBfs(Edges(g), {g.nodes[i]}, {g.nodes[i]})
         IN ConnectedComponentsFrom(g, i + 1, seen \cup c, Append(acc, c))

connected_components(g) == ConnectedComponentsFrom(g, 1, {}, <<>>)

\* clusters.sort(key=len, reverse=True): a stable sort, largest first.
RECURSIVE SortBySizeFrom(_, _)
SortBySizeFrom(cs, size) ==
    IF size < 1 THEN <<>>
    ELSE SelectSeq(cs, LAMBDA c : Cardinality(c) = size) \o SortBySizeFrom(cs, size - 1)

SortBySizeDesc(cs) ==
    IF cs = <<>> THEN <<>>
    ELSE SortBySizeFrom(cs, SetMax({Cardinality(cs[i]) : i \in DOMAIN cs}))

find_clusters(g) == SortBySizeDesc(connected_components(g))

(***************************************************************************)
(* Records (schemas/records.py).  The strings of the model and what the    *)
(* string functions of the source return on them.                          *)
(***************************************************************************)
LastNames == {"SMITH", "Smith", "SMYTH", "JONES"}
States == {"MA", "NY"}

\* name_last.upper().strip()
UpperStrip(name) == IF name = "Smith" THEN "SMITH" ELSE name

\* jellyfish.soundex(name_last)
Soundex(name) ==
    CASE name \in {"SMITH", "Smith", "SMYTH"} -> "S530"
      [] name = "JONES" -> "J520"
      [] OTHER -> name

\* Python's `<` on the source ids of the model (single letters).
IdRank(id) == CASE id = "a" -> 1 [] id = "b" -> 2 [] id = "c" -> 3 [] OTHER -> 4
IdLess(x, y) == IdRank(x) < IdRank(y)

(***************************************************************************)
(* matching/blocking.py                                                    *)
(***************************************************************************)
NoKey == <<>>

\* The key of a record in each blocking pass, NoKey when the pass skips it.
NpiKey(r) == IF Truthy(r.npi) THEN <<r.npi>> ELSE NoKey

StateKey(r) == IF Truthy(r.facility_state) THEN r.facility_state ELSE "XX"

LastNameStateKey(r) ==
    IF Truthy(r.name_last) THEN <<UpperStrip(r.name_last), StateKey(r)>> ELSE NoKey

SoundexStateKey(r) ==
    IF Truthy(r.name_last) THEN <<Soundex(r.name_last), StateKey(r)>> ELSE NoKey

\* A defaultdict(list) filled in record order, then filtered to the blocks
\* of two or more records: the blocks in the order their keys first occur.
RECURSIVE BlocksFrom(_, _, _, _)
BlocksFrom(recs, keys, i, done) ==
    IF i > Len(recs) THEN <<>>
    ELSE LET k == keys[i]
         IN IF k = NoKey \/ k \in done THEN BlocksFrom(recs, keys, i + 1, done)
            ELSE LET members == {j \in DOMAIN recs : keys[j] = k}
                     InBlock(j) == j \in members
                     idx == SelectSeq([j \in DOMAIN recs |-> j], InBlock)
                     block == [n \in DOMAIN idx |-> recs[idx[n]]]
                     rest == BlocksFrom(recs, keys, i + 1, done \cup {k})
                 IN IF Len(block) >= 2 THEN <<block>> \o rest ELSE rest

block_by_npi(recs) ==
    BlocksFrom(recs, [i \in DOMAIN recs |-> NpiKey(recs[i])], 1, {})
block_by_last_name_state(recs) ==
    BlocksFrom(recs, [i \in DOMAIN recs |-> LastNameStateKey(recs[i])], 1, {})
block_by_soundex_state(recs) ==
    BlocksFrom(recs, [i \in DOMAIN recs |-> SoundexStateKey(recs[i])], 1, {})

\* The inner loop without `if pair_key not in seen_pairs`.
RECURSIVE AddPairsInnerNoDedupe(_, _, _, _)
AddPairsInnerNoDedupe(block, j, rec1, st) ==
    IF j > Len(block) THEN st
    ELSE LET rec2 == block[j]
             ordered == IdLess(rec1.source_id, rec2.source_id)
             r1 == IF ordered THEN rec1 ELSE rec2
             r2 == IF ordered THEN rec2 ELSE rec1
         IN AddPairsInnerNoDedupe(block, j + 1, r1,
                [seen |-> st.seen \cup {<<r1.source_id, r2.source_id>>},
                 pairs |-> Append(st.pairs, <<r1, r2>>)])

\* The inner loop without `rec1, rec2 = rec2, rec1`: the key is ordered,
\* the pair is not.
RECURSIVE AddPairsInnerNoSwap(_, _, _, _)
AddPairsInnerNoSwap(block, j, rec1, st) ==
    IF j > Len(block) THEN st
    ELSE LET rec2 == block[j]
             pair_key == IF IdLess(rec1.source_id, rec2.source_id)
                         THEN <<rec1.source_id, rec2.source_id>>
                         ELSE <<rec2.source_id, rec1.source_id>>
             st2 == IF pair_key \in st.seen THEN st
                    ELSE [seen |-> st.seen \cup {pair_key},
                          pairs |-> Append(st.pairs, <<rec1, rec2>>)]
         IN AddPairsInnerNoSwap(block, j + 1, rec1, st2)

\* The inner loop of add_pairs_from_block for block[i]: rec1 is the loop
\* variable of the outer loop, which the else branch rebinds
\* (`rec1, rec2 = rec2, rec1`), so the swap carries over to the next rec2.
\* st is [seen |-> seen_pairs, pairs |-> pairs].
RECURSIVE AddPairsInner(_, _, _, _)
AddPairsInner(block, j, rec1, st) ==
    IF j > Len(block) THEN st
    ELSE LET rec2 == block[j]
             ordered == IdLess(rec1.source_id, rec2.source_id)
             r1 == IF ordered THEN rec1 ELSE rec2
             r2 == IF ordered THEN rec2 ELSE rec1
             pair_key == <<r1.source_id, r2.source_id>>
             st2 == IF pair_key \in st.seen THEN st
                    ELSE [seen |-> st.seen \cup {pair_key},
                          pairs |-> Append(st.pairs, <<r1, r2>>)]
         IN AddPairsInner(block, j + 1, r1, st2)

RECURSIVE AddPairsOuter(_, _, _)
AddPairsOuter(block, i, st) ==
    IF i > Len(block) THEN st
    ELSE AddPairsOuter(block, i + 1, AddPairsInner(block, i + 1, block[i], st))

add_pairs_from_block(block, st) == AddPairsOuter(block, 1, st)

\* `for block in blocks.values(): add_pairs_from_block(block)`
RECURSIVE AddBlocks(_, _, _)
AddBlocks(blocks, i, st) ==
    IF i > Len(blocks) THEN st
    ELSE AddBlocks(blocks, i + 1, add_pairs_from_block(blocks[i], st))

\* get_candidate_pairs with the phonetic pass applied whatever the flag.
get_candidate_pairs_all_passes(recs, use_soundex) ==
    LET s0 == [seen |-> {}, pairs |-> <<>>]
        s1 == AddBlocks(block_by_npi(recs), 1, s0)
        s2 == AddBlocks(block_by_last_name_state(recs), 1, s1)
    IN AddBlocks(block_by_soundex_state(recs), 1, s2).pairs

get_candidate_pairs(recs, use_soundex) ==
    LET s0 == [seen |-> {}, pairs |-> <<>>]
        s1 == AddBlocks(block_by_npi(recs), 1, s0)
        s2 == AddBlocks(block_by_last_name_state(recs), 1, s1)
        s3 == IF use_soundex THEN AddBlocks(block_by_soundex_state(recs), 1, s2) ELSE s2
    IN s3.pairs

(***************************************************************************)
(* matching/similarity.py                                                  *)
(***************************************************************************)
\* None where the source holds a `float | None` (npi_match, specialty_match).
NoScore == -1

FirstNames == {None, "JOHN", "J", "JON"}
Specialties == {None, "Internal Medicine", "IM", "Cardiology"}

\* str.strip() on the strings of the model.
Strip(s) == IF s = NpiXPadded THEN NpiX ELSE s

\* jellyfish.jaro_winkler_similarity on the upper-cased names of the model.
JaroWinkler(x, y) ==
    CASE x = y -> 10000
      [] {x, y} = {"SMITH", "SMYTH"} -> 8900
      [] {x, y} = {"JOHN", "JON"} -> 9300
      [] OTHER -> 0

\* f2.startswith(f1) for a one-letter f1
StartsWith(long, short) == short = "J" /\ long \in {"J", "JOHN", "JON"}
IsInitial(f) == f = "J"

\* calculate_npi_match: NoScore (unknown), 10000 (match) or 0 (conflict).
calculate_npi_match(npi1, npi2) ==
    IF ~Truthy(npi1) \/ ~Truthy(npi2) THEN NoScore
    ELSE LET n1 == Strip(npi1)
             n2 == Strip(npi2)
         IN IF StrLen(n1) # 10 \/ StrLen(n2) # 10 THEN NoScore
            ELSE IF ~IsDigit(n1) \/ ~IsDigit(n2) THEN NoScore
            ELSE IF n1 = n2 THEN 10000 ELSE 0

\* The initial is recognised in the first argument only.
calculate_first_name_similarity_one_way(first1, first2) ==
    IF ~Truthy(first1) \/ ~Truthy(first2) THEN 5000
    ELSE IF UpperStrip(first1) = UpperStrip(first2) THEN 10000
    ELSE IF IsInitial(first1) /\ StartsWith(first2, first1) THEN 8000
    ELSE JaroWinkler(UpperStrip(first1), UpperStrip(first2))

calculate_first_name_similarity(first1, first2) ==
    IF ~Truthy(first1) \/ ~Truthy(first2) THEN 5000
    ELSE IF UpperStrip(first1) = UpperStrip(first2) THEN 10000
    ELSE IF IsInitial(first1) /\ StartsWith(first2, first1) THEN 8000
    ELSE IF IsInitial(first2) /\ StartsWith(first1, first2) THEN 8000
    ELSE JaroWinkler(UpperStrip(first1), UpperStrip(first2))

\* The names of the model hold no apostrophe, hyphen or space, so l1_norm
\* is upper().strip().
calculate_last_name_similarity(last1, last2) ==
    IF ~Truthy(last1) \/ ~Truthy(last2) THEN 0
    ELSE IF UpperStrip(last1) = UpperStrip(last2) THEN 10000
    ELSE JaroWinkler(UpperStrip(last1), UpperStrip(last2))

\* calculate_location_score for records without coordinates
\* (calculate_distance_miles returns None): the state comparison.
calculate_location_score(state1, state2) ==
    IF Truthy(state1) /\ Truthy(state2)
    THEN IF state1 = state2 THEN 3000 ELSE 1000
    ELSE 2000

\* spec.upper().strip()
SpecialtyUpper(spec) ==
    CASE spec = "Internal Medicine" -> "INTERNAL MEDICINE"
      [] spec = "Cardiology" -> "CARDIOLOGY"
      [] OTHER -> spec

\* get_canonical over the mappings table.
SpecialtyCanonical(spec) ==
    IF SpecialtyUpper(spec) \in {"INTERNAL MEDICINE", "IM"} THEN "INTERNAL MEDICINE"
    ELSE SpecialtyUpper(spec)

\* calculate_specialty_similarity; fuzz.ratio of the model's distinct
\* specialties is not above 0.8.
calculate_specialty_similarity(spec1, spec2) ==
    IF ~Truthy(spec1) \/ ~Truthy(spec2) THEN NoScore
    ELSE IF SpecialtyUpper(spec1) = SpecialtyUpper(spec2) THEN 10000
    ELSE IF SpecialtyCanonical(spec1) = SpecialtyCanonical(spec2) THEN 10000
    ELSE 0

_calculate_overall_score(npi_match, name_similarity, location_score, specialty_match) ==
    IF npi_match = 10000 THEN 9500
    ELSE IF npi_match = 0 THEN 0
    ELSE LET score == IF specialty_match # NoScore
                      THEN (50 * name_similarity + 30 * location_score
                            + 20 * specialty_match) \div 100
                      ELSE (50 * name_similarity + 30 * location_score
                            + 20 * name_similarity) \div 100
         IN IF score < 10000 THEN score ELSE 10000

calculate_similarity(record1, record2) ==
    LET npi_match == calculate_npi_match(record1.npi, record2.npi)
        last_sim == calculate_last_name_similarity(record1.name_last, record2.name_last)
        first_sim == calculate_first_name_similarity(record1.name_first, record2.name_first)
        name_similarity == (60 * last_sim + 40 * first_sim) \div 100
        location_score == calculate_location_score(record1.facility_state,
                                                   record2.facility_state)
        specialty_match == calculate_specialty_similarity(record1.specialty, record2.specialty)
    IN [npi_match |-> npi_match,
        name_similarity |-> name_similarity,
        specialty_match |-> specialty_match,
        location_score |-> location_score,
        overall_score |-> _calculate_overall_score(npi_match, name_similarity,
                                                   location_score, specialty_match)]

(***************************************************************************)
(* matching/classifier.py                                                  *)
(***************************************************************************)
\* min(x + 0.7, 0.95) for the quotient x = num / den, as a fraction.
ConfidenceOf(num, den) ==
    IF (10 * num + 7 * den) * 100 < 95 * (10 * den)
    THEN <<10 * num + 7 * den, 10 * den>> ELSE <<95, 100>>

\* The score-based classification with `>` for `>=` and `<` for `<=`.
ScoreBasedStrict(scores, cfg) ==
    LET overall == scores.overall_score
    IN IF overall > cfg.match_threshold
       THEN [decision |-> "match",
             confidence |-> ConfidenceOf(overall - cfg.match_threshold,
                                         10000 - cfg.match_threshold),
             error |-> None]
       ELSE IF overall < cfg.non_match_threshold
       THEN [decision |-> "non_match",
             confidence |-> ConfidenceOf(cfg.non_match_threshold - overall,
                                         cfg.non_match_threshold),
             error |-> None]
       ELSE [decision |-> "uncertain", confidence |-> <<3, 10>>, error |-> None]

\* classify_match's score-based classification.
ScoreBased(scores, cfg) ==
    LET overall == scores.overall_score
    IN IF overall >= cfg.match_threshold
       THEN IF 10000 - cfg.match_threshold = 0
            THEN [decision |-> None, confidence |-> <<>>, error |-> "ZeroDivisionError"]
            ELSE [decision |-> "match",
                  confidence |-> ConfidenceOf(overall - cfg.match_threshold,
                                              10000 - cfg.match_threshold),
                  error |-> None]
       ELSE IF overall <= cfg.non_match_threshold
       THEN IF cfg.non_match_threshold = 0
            THEN [decision |-> None, confidence |-> <<>>, error |-> "ZeroDivisionError"]
            ELSE [decision |-> "non_match",
                  confidence |-> ConfidenceOf(cfg.non_match_threshold - overall,
                                              cfg.non_match_threshold),
                  error |-> None]
       ELSE LET mid2 == cfg.match_threshold + cfg.non_match_threshold
                dist2 == IF 2 * overall >= mid2 THEN 2 * overall - mid2 ELSE mid2 - 2 * overall
            IN [decision |-> "uncertain",
                confidence |-> <<3 * 20000 + 4 * dist2, 10 * 20000>>,
                error |-> None]

\* classify_match without the two NPI branches.
classify_match_by_score(scores, cfg) == ScoreBased(scores, cfg)

\* classify_match: (decision, confidence), or the exception raised.
classify_match(scores, cfg) ==
    IF scores.npi_match = 0
    THEN [decision |-> "non_match", confidence |-> <<1, 1>>, error |-> None]
    ELSE IF scores.npi_match = 10000
    THEN [decision |-> "match", confidence |-> <<95, 100>>, error |-> None]
    ELSE ScoreBased(scores, cfg)

determine_match_type(scores) ==
    IF scores.npi_match = 10000 THEN "npi_exact"
    ELSE IF scores.name_similarity >= 9000
    THEN IF scores.location_score >= 7000 THEN "name_location_strong"
         ELSE IF scores.specialty_match # NoScore /\ scores.specialty_match >= 9000
         THEN "name_specialty"
         ELSE "name_strong"
    ELSE IF scores.name_similarity >= 7000
    THEN IF scores.location_score >= 7000 THEN "name_location" ELSE "name_moderate"
    ELSE "weak"

\* The body of find_matches' loop for one candidate pair.
MatchResultOf(record1, record2, cfg) ==
    LET scores == calculate_similarity(record1, record2)
        c == classify_match(scores, cfg)
    IN [source_id_1 |-> record1.source_id,
        source_id_2 |-> record2.source_id,
        scores |-> scores,
        decision |-> c.decision,
        confidence |-> c.confidence,
        match_type |-> determine_match_type(scores),
        error |-> c.error]

(***************************************************************************)
(* graph/pruning.py                                                        *)
(***************************************************************************)
\* Step 1.  threshold = min_edge_weight * 0.75; an edge goes when
\* weight < threshold.
\* The loop stops after the first edge it removes.
prune_low_confidence_edges_first_only(g, min_edge_weight) ==
    LET low == {e \in Edges(g) : g.weight[e] * 100 < min_edge_weight * 75}
    IN IF low = {} THEN g ELSE RemoveEdges(g, {CHOOSE e \in low : TRUE})

prune_low_confidence_edges(g, min_edge_weight) ==
    RemoveEdges(g, {e \in Edges(g) : g.weight[e] * 100 < min_edge_weight * 75})

\* A missing npi counts as a key of its own.
ClusterNpisWithMissing(g, cluster) == {g.attr[n].npi : n \in cluster}

\* The keys of prune_npi_conflicts' `npis` dict for one cluster: every
\* truthy npi attribute, well-formed or not.
ClusterNpis(g, cluster) == {g.attr[n].npi : n \in cluster} \ {v \in NpiValues : ~Truthy(v)}

\* `len(npis) > 1`
HasNpiConflict(g, cluster) == Cardinality(ClusterNpis(g, cluster)) > 1

\* Only the first cluster is examined (the `break` one level up).
FirstConflictFirstOnly(g) ==
    LET cs == find_clusters(g)
    IN IF cs # <<>> /\ HasNpiConflict(g, cs[1]) THEN 1 ELSE 0

\* The first cluster of find_clusters(G) with a conflict (the loop breaks
\* at it), as an index, or 0 when there is none.
FirstConflict(g) ==
    LET cs == find_clusters(g)
        hit == {i \in DOMAIN cs : HasNpiConflict(g, cs[i])}
    IN IF hit = {} THEN 0 ELSE SetMin(hit)

\* The edges _find_weakest_cross_npi_edge looks at: the first branch takes
\* an edge whose endpoints carry different npis, the elif every other edge
\* with an npi at either end.
CrossNpiCandidates(g, cluster) ==
    {e \in SubgraphEdges(g, cluster) :
        \E u \in e : \E v \in e \ {u} :
            \/ Truthy(g.attr[u].npi) /\ Truthy(g.attr[v].npi)
                 /\ g.attr[u].npi # g.attr[v].npi
            \/ Truthy(g.attr[u].npi) \/ Truthy(g.attr[v].npi)}

\* Only the first branch: edges whose two ends carry different npis.
_find_weakest_cross_npi_edge_both_ends(g, cluster) ==
    LET es == {e \in SubgraphEdges(g, cluster) :
                 \E u \in e : \E v \in e \ {u} :
                     Truthy(g.attr[u].npi) /\ Truthy(g.attr[v].npi)
                       /\ g.attr[u].npi # g.attr[v].npi}
    IN {e \in es : \A f \in es : g.weight[e] <= g.weight[f]}

\* No comparison of weights: any edge may be returned.
AnyEdgeOf(g, es) == es

\* The running minimum with `weight < weakest_weight` keeps the first edge
\* of least weight in the graph's edge order; the model leaves that order
\* open and returns every edge of least weight.
WeakestOf(g, es) == {e \in es : \A f \in es : g.weight[e] <= g.weight[f]}

\* The comparison is turned round: the heaviest candidate is returned.
_find_heaviest_cross_npi_edge(g, cluster) ==
    LET es == CrossNpiCandidates(g, cluster)
    IN {e \in es : \A f \in es : g.weight[e] >= g.weight[f]}

_find_weakest_cross_npi_edge(g, cluster) == WeakestOf(g, CrossNpiCandidates(g, cluster))

\* The oversized clusters of one pass of prune_oversized_clusters.
Oversized(g, max_size) ==
    SelectSeq(find_clusters(g), LAMBDA c : Cardinality(c) > max_size)

\* The edge sets one pass can remove: for every oversized cluster that has
\* an edge, one of its edges of least weight.
RECURSIVE OversizedRemovals(_, _, _)
OversizedRemovals(g, over, i) ==
    IF i > Len(over) THEN {{}}
    ELSE LET rest == OversizedRemovals(g, over, i + 1)
             weak == WeakestOf(g, SubgraphEdges(g, over[i]))
         IN IF weak = {} THEN rest
            ELSE {r \cup {e} : r \in rest, e \in weak}

\* nx.bridges(subgraph): the edges whose removal disconnects their ends.
Bridges(es) ==
    {e \in es : \E u \in e : \E v \in e \ {u} :
        v \notin PlainBfs(es \ {e}, {u}, {u})}

\* Two-node clusters are not skipped.
WeakBridgesAnySize(g, threshold) ==
    LET cs == find_clusters(g)
    IN UNION {{e \in Bridges(SubgraphEdges(g, cs[i])) : g.weight[e] < threshold} :
                i \in DOMAIN cs}

\* Step 4.  For every cluster of more than two nodes, the bridges of its
\* subgraph whose weight is below the threshold.
WeakBridges(g, threshold) ==
    LET cs == find_clusters(g)
    IN UNION {{e \in Bridges(SubgraphEdges(g, cs[i])) : g.weight[e] < threshold} :
                i \in {j \in DOMAIN cs : Cardinality(cs[j]) > 2}}

prune_weak_bridges(g, threshold) == RemoveEdges(g, WeakBridges(g, threshold))

(***************************************************************************)
(* graph/quality.py                                                        *)
(***************************************************************************)
\* The distinct truthy values of one attribute over a cluster.
DistinctAttr(g, cluster, field) ==
    {g.attr[n][field] : n \in cluster} \ {v \in {None, ""} : TRUE}

\* assess_cluster_quality's `size > 20` ("Large cluster").
LargeClusterSize == 20

\* Scores are exact fractions in lowest terms.
RECURSIVE Gcd(_, _)
Gcd(a, b) == IF b = 0 THEN a ELSE Gcd(b, a % b)

Lowest(f) == LET d == Gcd(f[1], f[2]) IN <<f[1] \div d, f[2] \div d>>

\* score *= factor
FracMul(f, h) == LET a == Lowest(f)
                     b == Lowest(h)
                 IN Lowest(<<a[1] * b[1], a[2] * b[2]>>)

\* The product of _calculate_quality_score's factors as the fraction
\* <<numerator, denominator>>; k edges of total weight total and least
\* weight least.  Every factor is in [0, 1], so the final clamp keeps it.
QualityFactors(size, k, total, least, state_count, specialty_count) ==
         LET max_edges == (size * (size - 1)) \div 2
             f1 == IF k = 0 THEN <<4, 10>>
                   ELSE <<4 * total + 2 * least * k + 40000 * k, 100000 * k>>
             f2 == IF size > 5 THEN <<1, 1>>
                   ELSE IF max_edges = 0 THEN <<1, 1>>
                   ELSE <<30 * k + 70 * max_edges, 100 * max_edges>>
             f3 == IF state_count > 1
                   THEN <<SetMax({50, 100 - 15 * (state_count - 1)}), 100>> ELSE <<1, 1>>
             f4 == IF specialty_count > 2
                   THEN <<SetMax({50, 100 - 10 * (specialty_count - 2)}), 100>> ELSE <<1, 1>>
             f5 == IF size > 10
                   THEN <<SetMax({50, 100 - 2 * (size - 10)}), 100>> ELSE <<1, 1>>
         IN FracMul(FracMul(FracMul(FracMul(f1, f2), f3), f4), f5)

\* The score without the check of npi_conflict.
_quality_score_factors_only(size, k, total, least, npi_conflict, state_count, specialty_count) ==
    QualityFactors(size, k, total, least, state_count, specialty_count)

\* _calculate_quality_score: 0.1 on an NPI conflict, else the product.
_calculate_quality_score(size, k, total, least, npi_conflict, state_count, specialty_count) ==
    IF npi_conflict THEN <<1, 10>>
    ELSE QualityFactors(size, k, total, least, state_count, specialty_count)

\* assess_cluster_quality: the ClusterQuality of one cluster; warnings is
\* the set of the kinds of warning strings appended.
assess_cluster_quality(g, cluster) ==
    LET es == SubgraphEdges(g, cluster)
        size == Cardinality(cluster)
        k == Cardinality(es)
        total == SumOver(es, g.weight)
        least == IF es = {} THEN 0 ELSE SetMin({g.weight[e] : e \in es})
        npi_count == Cardinality(DistinctAttr(g, cluster, "npi"))
        npi_conflict == npi_count > 1
        state_count == Cardinality(DistinctAttr(g, cluster, "facility_state"))
        specialty_count == Cardinality(DistinctAttr(g, cluster, "specialty"))
    IN [size |-> size,
        edge_count |-> k,
        min_edge_weight |-> least,
        npi_count |-> npi_count,
        npi_conflict |-> npi_conflict,
        state_count |-> state_count,
        specialty_count |-> specialty_count,
        quality_score |-> _calculate_quality_score(size, k, total, least, npi_conflict,
                                                   state_count, specialty_count),
        warnings |-> {w \in {"NPI conflict", "Geographic spread",
                             "Multiple specialties", "Large cluster"} :
                        \/ w = "NPI conflict" /\ npi_conflict
                        \/ w = "Geographic spread" /\ state_count > 3
                        \/ w = "Multiple specialties" /\ specialty_count > 3
                        \/ w = "Large cluster" /\ size > LargeClusterSize}]

\* analyze_cluster_quality: one ClusterQuality per cluster, in order.
analyze_cluster_quality(g, cs) == [i \in DOMAIN cs |-> assess_cluster_quality(g, cs[i])]

(***************************************************************************)
(* graph/overmatching.py                                                   *)
(***************************************************************************)
\* G.subgraph(cluster).copy(): a graph of its own on the cluster's nodes,
\* listed in the order `order` meets them, with the edges inside the
\* cluster.
SubgraphCopy(g, cluster, order) ==
    LET In(x) == x \in cluster
    IN [nodes |-> SelectSeq(order, In),
        attr |-> [n \in cluster |-> g.attr[n]],
        weight |-> [e \in SubgraphEdges(g, cluster) |-> g.weight[e]]]

\* find_weak_bridges: the bridges of the cluster's subgraph whose weight
\* is below the threshold.
find_weak_bridges(g, cluster, threshold) ==
    {e \in Bridges(SubgraphEdges(g, cluster)) : g.weight[e] < threshold}

\* The weak bridges are removed from G itself.
suggest_cluster_splits_in_place(g, cluster, order, threshold) ==
    LET weak_bridges == find_weak_bridges(g, cluster, threshold)
        pruned == RemoveEdges(g, weak_bridges)
    IN [G |-> pruned,
        result |-> connected_components(SubgraphCopy(pruned, cluster, order))]

\* suggest_cluster_splits: the graph the caller holds after the call, and
\* the list returned.
suggest_cluster_splits(g, cluster, order, threshold) ==
    LET subgraph == SubgraphCopy(g, cluster, order)
        weak_bridges == find_weak_bridges(g, cluster, threshold)
    IN [G |-> g,
        result |-> connected_components(RemoveEdges(subgraph, weak_bridges))]

(***************************************************************************)
(* matching/classifier.py: find_matches, get_confirmed_matches             *)
(***************************************************************************)
\* find_matches' loop over the candidate pairs.
find_matches(recs, cfg) ==
    LET ps == get_candidate_pairs(recs, cfg.use_soundex_blocking)
    IN [i \in DOMAIN ps |-> MatchResultOf(ps[i][1], ps[i][2], cfg)]

\* The elif lacks its test of the decision: with include_uncertain every
\* result is kept.
get_confirmed_matches_keep_all(results, include_uncertain) ==
    LET kept == SelectSeq(results, LAMBDA r : r.decision = "match" \/ include_uncertain)
    IN [i \in DOMAIN kept |->
          <<kept[i].source_id_1, kept[i].source_id_2, kept[i].scores.overall_score>>]

RECURSIVE ConfirmedFrom(_, _, _, _)
ConfirmedFrom(results, include_uncertain, i, acc) ==
    IF i > Len(results) THEN acc
    ELSE LET r == results[i]
             t == <<r.source_id_1, r.source_id_2, r.scores.overall_score>>
         IN IF r.decision = "match" \/ (include_uncertain /\ r.decision = "uncertain")
            THEN ConfirmedFrom(results, include_uncertain, i + 1, Append(acc, t))
            ELSE ConfirmedFrom(results, include_uncertain, i + 1, acc)

\* The (source_id_1, source_id_2, overall_score) tuples of the matches.
get_confirmed_matches(results, include_uncertain) ==
    ConfirmedFrom(results, include_uncertain, 1, <<>>)

(***************************************************************************)
(* graph/builder.py                                                        *)
(***************************************************************************)
\* G.add_edge(u, v, weight=w): a new edge, or a new weight on the edge.
AddEdge(g, u, v, w) ==
    [g EXCEPT !.weight = [e \in DOMAIN g.weight \cup {{u, v}} |->
                             IF e = {u, v} THEN w ELSE g.weight[e]]]

\* The edge loop without `if source_id_1 in G and source_id_2 in G`.
RECURSIVE AddEdgesUnguarded(_, _, _)
AddEdgesUnguarded(g, ms, i) ==
    IF i > Len(ms) THEN g
    ELSE AddEdgesUnguarded(AddEdge(g, ms[i][1], ms[i][2], ms[i][3]), ms, i + 1)

\* build_identity_graph's edge loop: a match is added when both of its
\* ids are nodes, and skipped otherwise.
RECURSIVE AddEdgesFrom(_, _, _)
AddEdgesFrom(g, ms, i) ==
    IF i > Len(ms) THEN g
    ELSE IF ms[i][1] \in NodeSet(g) /\ ms[i][2] \in NodeSet(g)
    THEN AddEdgesFrom(AddEdge(g, ms[i][1], ms[i][2], ms[i][3]), ms, i + 1)
    ELSE AddEdgesFrom(g, ms, i + 1)

\* The attributes G.add_node stores for a record.
NodeAttrsOf(r) ==
    [source |-> r.source, npi |-> r.npi, name_first |-> r.name_first,
     name_last |-> r.name_last, specialty |-> r.specialty,
     facility_state |-> r.facility_state]

\* build_identity_graph on records of distinct source ids.
build_identity_graph(recs, ms) ==
    LET ids == [i \in DOMAIN recs |-> recs[i].source_id]
        rec(id) == recs[CHOOSE i \in DOMAIN recs : recs[i].source_id = id]
        nodes == [nodes |-> ids,
                  attr |-> [id \in Range(ids) |-> NodeAttrsOf(rec(id))],
                  weight |-> <<>>]
    IN AddEdgesFrom(nodes, ms, 1)

(***************************************************************************)
(* canonicalization/ids.py.  A canonical id f"PHY_{x}" is the pair         *)
(* <<"PHY_", x>>.                                                          *)
(***************************************************************************)
\* The values uuid.uuid4().hex[:12] can take.
RandomHex == {"0a1b2c3d4e5f", "f5e4d3c2b1a0"}

\* `for node in cluster`: the members in the set's iteration order.
ClusterIter(cluster) ==
    LET In(x) == x \in cluster IN SelectSeq(hash_order, In)

\* The elements of a list that pass a test, in order.
Count(vals, v) == Cardinality({i \in DOMAIN vals : vals[i] = v})
FirstIndex(vals, v) == SetMin({i \in DOMAIN vals : vals[i] = v})

\* Counter(vals).most_common(1)[0][0] for a non-empty list: the value of
\* the highest count, the first one inserted among equals.
MostCommon(vals) ==
    LET best == {v \in Range(vals) : \A u \in Range(vals) : Count(vals, v) >= Count(vals, u)}
    IN CHOOSE v \in best : \A u \in best : FirstIndex(vals, v) <= FirstIndex(vals, u)

\* The npi attributes of the cluster's nodes, in iteration order.
NpiList(g, cluster) == [i \in DOMAIN ClusterIter(cluster) |-> g.attr[ClusterIter(cluster)[i]].npi]

\* _generate_canonical_id keeping every npi that is set, well-formed or not.
_generate_canonical_id_unfiltered(g, cluster) ==
    LET npis == SelectSeq(NpiList(g, cluster), Truthy)
    IN IF npis # <<>> THEN {<<"PHY_", MostCommon(npis)>>}
       ELSE {<<"PHY_", h>> : h \in RandomHex}

\* _generate_canonical_id: the ids one call can return.
_generate_canonical_id(g, cluster) ==
    LET npis == SelectSeq(NpiList(g, cluster), WellFormed)
    IN IF npis # <<>> THEN {<<"PHY_", MostCommon(npis)>>}
       ELSE {<<"PHY_", h>> : h \in RandomHex}

\* One canonical id per cluster, for the clusters 1..i.
RECURSIVE IdChoices(_, _, _)
IdChoices(g, cs, i) ==
    IF i = 0 THEN {<<>>}
    ELSE {Append(s, c) : s \in IdChoices(g, cs, i - 1), c \in _generate_canonical_id(g, cs[i])}

\* The last cluster that holds the source id (a later assignment to
\* mapping[source_id] overwrites an earlier one).
LastClusterOf(cs, n) == SetMax({i \in DOMAIN cs : n \in cs[i]})

\* An id generated for every source id, inside the inner loop.
assign_canonical_ids_per_member(g, cs) ==
    {m \in [UNION Range(cs) -> {<<"PHY_", x>> : x \in NpiValues \cup RandomHex}] :
        \A n \in UNION Range(cs) : m[n] \in _generate_canonical_id(g, cs[LastClusterOf(cs, n)])}

\* assign_canonical_ids: the mappings one call can return.
assign_canonical_ids(g, cs) ==
    {[n \in UNION Range(cs) |-> ids[LastClusterOf(cs, n)]] : ids \in IdChoices(g, cs, Len(cs))}

(***************************************************************************)
(* canonicalization/confidence.py, canonicalization/merge.py               *)
(***************************************************************************)
\* SOURCE_PRIORITY.get(source, 0)
SourcePriority(source) ==
    CASE source = "cms" -> 4 [] source = "license" -> 3 [] source = "hospital" -> 2
      [] source = "publication" -> 1 [] OTHER -> 0

\* _source_confidence, in hundredths.
_source_confidence(source) ==
    CASE source = "cms" -> 85 [] source = "license" -> 80 [] source = "hospital" -> 70
      [] source = "publication" -> 50 [] OTHER -> 50

\* calculate_entity_confidence as the fraction <<numerator, denominator>>.
calculate_entity_confidence(g, cluster) ==
    LET n == Cardinality(cluster)
        es == SubgraphEdges(g, cluster)
        k == Cardinality(es)
        total == SumOver(es, g.weight)
        least == SetMin({g.weight[e] : e \in es})
        npi10 == IF Cardinality(ClusterNpis(g, cluster)) <= 1 THEN 10 ELSE 3
        srcs == Cardinality(DistinctAttr(g, cluster, "source"))
        div3 == IF srcs < 3 THEN srcs ELSE 3
        pairs2 == n * (n - 1)
        den == 3000000 * k * pairs2
        num == 30 * total * 3 * pairs2 + 15 * least * 3 * k * pairs2
               + 30 * k * 30000 * k + 25 * npi10 * 3000 * k * pairs2
               + 15 * div3 * 10000 * k * pairs2
    IN IF n = 1
       THEN <<_source_confidence(g.attr[CHOOSE x \in cluster : TRUE].source), 100>>
       ELSE IF k = 0 THEN <<3, 10>>
       ELSE IF num > den THEN <<1, 1>> ELSE <<num, den>>

\* _select_npi without the filter for valid NPIs.
_select_npi_unfiltered(npis) == IF npis = <<>> THEN None ELSE MostCommon(npis)

\* _select_npi
_select_npi(npis) ==
    IF npis = <<>> THEN None
    ELSE LET Valid(v) == StrLen(v) = 10 /\ IsDigit(v)
             valid_npis == SelectSeq(npis, Valid)
         IN IF valid_npis = <<>> THEN None ELSE MostCommon(valid_npis)

\* _select_most_common; the values of the model carry no whitespace.
_select_most_common(values) == IF values = <<>> THEN None ELSE MostCommon(values)

\* _select_specialty on (specialty, priority) pairs: the first key of the
\* highest count, then its first version of the highest priority.
_select_specialty(specialties) ==
    IF specialties = <<>> THEN None
    ELSE LET keys == [i \in DOMAIN specialties |-> SpecialtyUpper(specialties[i][1])]
             most_common_key == MostCommon(keys)
             InKey(x) == SpecialtyUpper(x[1]) = most_common_key
             versions == SelectSeq(specialties, InKey)
             top == SetMax({versions[i][2] : i \in DOMAIN versions})
             first == SetMin({i \in DOMAIN versions : versions[i][2] = top})
         IN versions[first][1]

\* merge_cluster_attributes: the CanonicalPhysician records one call can
\* return (the canonical id is generated anew).
merge_cluster_attributes(g, cluster) ==
    LET it == ClusterIter(cluster)
        attrs == [i \in DOMAIN it |-> g.attr[it[i]]]
        HasNpi(a) == Truthy(a.npi)
        HasSpecialty(a) == Truthy(a.specialty)
        HasState(a) == Truthy(a.facility_state)
        withNpi == SelectSeq(attrs, HasNpi)
        withSpecialty == SelectSeq(attrs, HasSpecialty)
        withState == SelectSeq(attrs, HasState)
        npis == [i \in DOMAIN withNpi |-> withNpi[i].npi]
        specialties == [i \in DOMAIN withSpecialty |->
                           <<withSpecialty[i].specialty, SourcePriority(withSpecialty[i].source)>>]
        states == [i \in DOMAIN withState |-> withState[i].facility_state]
    IN {[canonical_id |-> id,
         confidence |-> calculate_entity_confidence(g, cluster),
         npi |-> _select_npi(npis),
         specialty |-> _select_specialty(specialties),
         state |-> _select_most_common(states),
         source_records |-> cluster,
         source_count |-> Cardinality(cluster)] : id \in _generate_canonical_id(g, cluster)}

\* merge_all_clusters' loop: one physician per cluster, for clusters 1..i.
RECURSIVE MergedUpTo(_, _, _)
MergedUpTo(g, cs, i) ==
    IF i = 0 THEN {<<>>}
    ELSE {Append(s, p) : s \in MergedUpTo(g, cs, i - 1), p \in merge_cluster_attributes(g, cs[i])}

(***************************************************************************)
(* analysis/cluster_report.py                                              *)
(***************************************************************************)
analyze_cluster_sizes(cs) ==
    IF cs = <<>> THEN [error |-> "No clusters provided"]
    ELSE LET sizes == {Cardinality(cs[i]) : i \in DOMAIN cs}
         IN [total_clusters |-> Len(cs),
             total_records |-> SumOver(DOMAIN cs, [i \in DOMAIN cs |-> Cardinality(cs[i])]),
             min |-> SetMin(sizes),
             max |-> SetMax(sizes)]

analyze_canonical_physicians(ps) ==
    IF ps = <<>> THEN [error |-> "No physicians provided"]
    ELSE [total_physicians |-> Len(ps),
          with_npi |-> Cardinality({i \in DOMAIN ps : Truthy(ps[i].npi)})]

\* generate_cluster_report; physician_analysis is present only for a
\* non-empty list of physicians.
generate_cluster_report(g, cs, canonical_physicians) ==
    [size_analysis |-> analyze_cluster_sizes(cs),
     quality_analysis |-> analyze_cluster_quality(g, cs),
     physician_analysis |-> IF canonical_physicians # <<>>
                            THEN analyze_canonical_physicians(canonical_physicians)
                            ELSE None]

(***************************************************************************)
(* The runs.  `config.run` names the entry point: "pipeline" is            *)
(* run_pipeline's core sequence on a list of records; "prune" is           *)
(* full_pruning_pipeline, find_clusters and the quality analysis called    *)
(* on a graph the caller built; "block" is get_candidate_pairs; "score"    *)
(* is the scoring of one candidate pair; "build" is build_identity_graph;  *)
(* "canon" is find_clusters and the canonicalization of its clusters.      *)
(***************************************************************************)
Ids == <<"a", "b", "c", "d">>
Weights == {2000, 3500, 9000}
MaxClusterSizes == {2, 3}

\* PipelineConfig's defaults (config.py).
DefaultMatchThreshold == 8500
DefaultNonMatchThreshold == 3000
DefaultMinEdgeWeight == 4000

NodeAttrs == [npi : NpiValues, source : {"cms"}, facility_state : {None}, specialty : {None}]

EdgeUniverse == {{Ids[i], Ids[j]} : i, j \in DOMAIN Ids} \ {{Ids[i]} : i \in DOMAIN Ids}

\* The input graphs of the pruning runs: nodes Ids, at most MaxEdges
\* weighted edges.  Nodes are listed with their npi
\* attributes in the order None, NpiX, NpiY, NpiBad: every attributed
\* graph is isomorphic to one of these, the edges being arbitrary.
NpiRank(v) == CASE v = None -> 0 [] v = NpiX -> 1 [] v = NpiY -> 2 [] OTHER -> 3

SortedNodeAttrs ==
    {f \in [Range(Ids) -> NodeAttrs] :
        \A i, j \in DOMAIN Ids :
            i < j => NpiRank(f[Ids[i]].npi) <= NpiRank(f[Ids[j]].npi)}

EdgeSets == {x \in SUBSET EdgeUniverse : Cardinality(x) <= MaxEdges}

InitPrune ==
    /\ pc = "prune_low"
    /\ records = <<>>
    /\ config \in [run : {"prune"},
                   min_edge_weight : {DefaultMinEdgeWeight},
                   max_cluster_size : MaxClusterSizes,
                   prune_conflicts : BOOLEAN]
    /\ pairs = <<>>
    /\ match_results = <<>>
    /\ matches = <<>>
    /\ \E a \in SortedNodeAttrs : \E es \in EdgeSets : \E w \in [es -> Weights] :
          G = [nodes |-> Ids, attr |-> a, weight |-> w]
    /\ conflicts_resolved = 0
    /\ iterations = 0
    /\ clusters = <<>>
    /\ mapping = <<>>
    /\ physicians = <<>>
    /\ report = <<>>
    /\ error = None
    /\ initial_edges = 0
    /\ edges_removed = 0
    /\ hash_order = <<>>

\* full_pruning_pipeline, step 1.
PruneLowConfidenceEdges ==
    /\ pc = "prune_low"
    /\ initial_edges' = Cardinality(Edges(G))
    /\ G' = prune_low_confidence_edges(G, config.min_edge_weight)
    /\ pc' = IF config.prune_conflicts THEN "prune_npi" ELSE "prune_oversized"
    /\ UNCHANGED <<hash_order, records, config, pairs, match_results, matches,
                   conflicts_resolved, iterations, clusters, mapping, physicians,
                   report, error, edges_removed>>

\* One pass of prune_npi_conflicts' `while True`: without a conflict the
\* loop ends; with one, the weakest candidate edge of the first
\* conflicting cluster goes (none when there is no candidate) and the
\* loop starts over.
PruneNpiConflictsPass ==
    /\ pc = "prune_npi"
    /\ LET i == FirstConflict(G)
       IN IF i = 0
          THEN /\ pc' = IF config.run = "conflicts" THEN "done" ELSE "prune_oversized"
               /\ UNCHANGED <<G, conflicts_resolved>>
          ELSE LET weakest == _find_weakest_cross_npi_edge(G, find_clusters(G)[i])
               IN /\ pc' = "prune_npi"
                  /\ IF weakest = {} THEN UNCHANGED <<G, conflicts_resolved>>
                     ELSE /\ \E e \in weakest : G' = RemoveEdges(G, {e})
                          /\ conflicts_resolved' = conflicts_resolved + 1
    /\ UNCHANGED <<hash_order, records, config, pairs, match_results, matches,
                   iterations, clusters, mapping, physicians, report, error,
                   initial_edges, edges_removed>>

\* One evaluation of prune_oversized_clusters' `while iterations <
\* max_iterations`: the loop ends at the cap or when no cluster is
\* oversized; otherwise every oversized cluster loses its weakest edge.
PruneOversizedPass ==
    /\ pc = "prune_oversized"
    /\ LET over == Oversized(G, config.max_cluster_size)
       IN IF iterations >= MaxIterations \/ over = <<>>
          THEN /\ pc' = "prune_bridges"
               /\ G' = G
               /\ iterations' = iterations
          ELSE /\ pc' = "prune_oversized"
               /\ \E r \in OversizedRemovals(G, over, 1) : G' = RemoveEdges(G, r)
               /\ iterations' = iterations + 1
    /\ UNCHANGED <<hash_order, records, config, pairs, match_results, matches,
                   conflicts_resolved, clusters, mapping, physicians, report, error,
                   initial_edges, edges_removed>>

\* full_pruning_pipeline, step 4, and its return.
PruneWeakBridges ==
    /\ pc = "prune_bridges"
    /\ G' = prune_weak_bridges(G, config.min_edge_weight)
    /\ edges_removed' = Cardinality(WeakBridges(G, config.min_edge_weight))
    /\ pc' = "find_clusters"
    /\ UNCHANGED <<hash_order, records, config, pairs, match_results, matches,
                   conflicts_resolved, iterations, clusters, mapping, physicians,
                   report, error, initial_edges>>

\* clusters = find_clusters(G)
FindClusters ==
    /\ pc = "find_clusters"
    /\ clusters' = find_clusters(G)
    /\ pc' = IF config.run \in {"prune", "quality"} THEN "analyze_quality" ELSE "assign_ids"
    /\ UNCHANGED <<hash_order, records, config, pairs, match_results, matches, G,
                   conflicts_resolved, iterations, mapping, physicians, report, error,
                   initial_edges, edges_removed>>

\* analyze_cluster_quality(G, clusters) on the pruned graph.
AnalyzeClusterQuality ==
    /\ pc = "analyze_quality"
    /\ report' = analyze_cluster_quality(G, clusters)
    /\ pc' = "done"
    /\ UNCHANGED <<hash_order, records, config, pairs, match_results, matches, G,
                   conflicts_resolved, iterations, clusters, mapping, physicians,
                   error, initial_edges, edges_removed>>

NextPrune ==
    \/ PruneLowConfidenceEdges
    \/ PruneNpiConflictsPass
    \/ PruneOversizedPass
    \/ PruneWeakBridges
    \/ FindClusters
    \/ AnalyzeClusterQuality

SpecPrune == InitPrune /\ [][NextPrune]_vars

(***************************************************************************)
(* The conflict run: prune_npi_conflicts called on a graph as it is, with  *)
(* edges of two weights.                                                   *)
(***************************************************************************)
ConflictWeights == {3500, 9000}

InitConflicts ==
    /\ pc = "call_prune_npi"
    /\ records = <<>>
    /\ config = [run |-> "conflicts"]
    /\ pairs = <<>>
    /\ match_results = <<>>
    /\ matches = <<>>
    /\ G = EmptyGraph
    /\ conflicts_resolved = 0
    /\ iterations = 0
    /\ clusters = <<>>
    /\ mapping = <<>>
    /\ physicians = <<>>
    /\ report = <<>>
    /\ error = None
    /\ initial_edges = 0
    /\ edges_removed = 0
    /\ hash_order = <<>>

\* The call: G is bound to the caller's graph and the counter is set.
CallPruneNpiConflicts ==
    /\ pc = "call_prune_npi"
    /\ \E a \in SortedNodeAttrs : \E es \in EdgeSets : \E w \in [es -> ConflictWeights] :
          G' = [nodes |-> Ids, attr |-> a, weight |-> w]
    /\ conflicts_resolved' = 0
    /\ pc' = "prune_npi"
    /\ UNCHANGED <<hash_order, records, config, pairs, match_results, matches,
                   iterations, clusters, mapping, physicians, report, error,
                   initial_edges, edges_removed>>

NextConflicts ==
    \/ CallPruneNpiConflicts
    \/ PruneNpiConflictsPass

\* ENABLED <<NextConflicts>>_vars, written out: the call can be made; a
\* pass changes the state when it finds no conflict (the loop ends) or
\* finds an edge to remove.
ConflictsStepEnabled ==
    \/ pc = "call_prune_npi"
    \/ /\ pc = "prune_npi"
       /\ LET i == FirstConflict(G)
          IN i # 0 => _find_weakest_cross_npi_edge(G, find_clusters(G)[i]) # {}

\* A call that can take a step takes it: WF_vars(NextConflicts), with its
\* ENABLED written out as above.
SpecConflicts ==
    /\ InitConflicts /\ [][NextConflicts]_vars
    /\ ([]<>(~ConflictsStepEnabled) \/ []<><<NextConflicts>>_vars)

(***************************************************************************)
(* The quality run.                                                        *)
(***************************************************************************)
\* The quality run: find_clusters and analyze_cluster_quality on a graph
\* that was not pruned, whose nodes differ in npi, state and specialty.
QualityIds == <<"a", "b", "c">>
QualityWeights == {3500, 9000}
QualityAttrs == [npi : NpiValues, source : {"cms"}, facility_state : States,
                 specialty : {"IM", "Cardiology"}]
QualityEdgeUniverse == {e \in EdgeUniverse : e \subseteq Range(QualityIds)}

InitQuality ==
    /\ pc = "find_clusters"
    /\ records = <<>>
    /\ config = [run |-> "quality"]
    /\ pairs = <<>>
    /\ match_results = <<>>
    /\ matches = <<>>
    /\ \E a \in [Range(QualityIds) -> QualityAttrs] :
       \E es \in SUBSET QualityEdgeUniverse : \E w \in [es -> QualityWeights] :
          G = [nodes |-> QualityIds, attr |-> a, weight |-> w]
    /\ conflicts_resolved = 0
    /\ iterations = 0
    /\ clusters = <<>>
    /\ mapping = <<>>
    /\ physicians = <<>>
    /\ report = <<>>
    /\ error = None
    /\ initial_edges = 0
    /\ edges_removed = 0
    /\ hash_order = <<>>

NextQuality ==
    \/ FindClusters
    \/ AnalyzeClusterQuality

SpecQuality == InitQuality /\ [][NextQuality]_vars

(***************************************************************************)
(* The blocking run: get_candidate_pairs on a list of records.             *)
(***************************************************************************)
RecIds == {"a", "b", "c"}

\* The lists of distinct source ids, in every order.
IdLists ==
    {o \in UNION {[1..n -> RecIds] : n \in 0..Cardinality(RecIds)} :
        \A i, j \in DOMAIN o : i # j => o[i] # o[j]}

MakeRecord(id, a) ==
    [source |-> a.source, source_id |-> id, npi |-> a.npi,
     name_first |-> a.name_first, name_last |-> a.name_last,
     specialty |-> a.specialty, facility_state |-> a.facility_state]

\* The list of records with ids o and attribute combinations f.
RecordList(o, f) == [i \in DOMAIN o |-> MakeRecord(o[i], f[i])]

BlockingAttrs ==
    [source : {"cms"}, npi : {None, NpiX, NpiY}, name_first : {"JOHN"},
     name_last : LastNames, specialty : {None}, facility_state : States]

InitBlock ==
    /\ pc = "get_candidate_pairs"
    /\ \E o \in IdLists : \E f \in [DOMAIN o -> BlockingAttrs] :
          records = RecordList(o, f)
    /\ config \in [run : {"block"}, use_soundex_blocking : BOOLEAN]
    /\ pairs = <<>>
    /\ match_results = <<>>
    /\ matches = <<>>
    /\ G = EmptyGraph
    /\ conflicts_resolved = 0
    /\ iterations = 0
    /\ clusters = <<>>
    /\ mapping = <<>>
    /\ physicians = <<>>
    /\ report = <<>>
    /\ error = None
    /\ initial_edges = 0
    /\ edges_removed = 0
    /\ hash_order = <<>>

\* pairs = get_candidate_pairs(records, use_soundex=...)
GetCandidatePairs ==
    /\ pc = "get_candidate_pairs"
    /\ pairs' = get_candidate_pairs(records, config.use_soundex_blocking)
    /\ pc' = "done"
    /\ UNCHANGED <<hash_order, records, config, match_results, matches, G,
                   conflicts_resolved, iterations, clusters, mapping, physicians,
                   report, error, initial_edges, edges_removed>>

NextBlock == GetCandidatePairs

SpecBlock == InitBlock /\ [][NextBlock]_vars

(***************************************************************************)
(* The scoring run: calculate_similarity, classify_match and               *)
(* determine_match_type on one pair of records, as in find_matches' loop.  *)
(***************************************************************************)
ScoreAttrs ==
    [source : {"cms"}, npi : {None, NpiX, NpiY, NpiBad, NpiXPadded},
     name_first : {None, "JOHN", "J"}, name_last : {"SMITH", "SMYTH", "JONES"},
     specialty : {None, "IM"}, facility_state : {None, "MA"}]

ScoreConfigs ==
    [run : {"score"}, match_threshold : {DefaultMatchThreshold, 9600},
     non_match_threshold : {DefaultNonMatchThreshold, 100}]

InitScore ==
    /\ pc = "score"
    /\ \E a1, a2 \in ScoreAttrs : records = <<MakeRecord("a", a1), MakeRecord("b", a2)>>
    /\ config \in ScoreConfigs
    /\ pairs = <<>>
    /\ match_results = <<>>
    /\ matches = <<>>
    /\ G = EmptyGraph
    /\ conflicts_resolved = 0
    /\ iterations = 0
    /\ clusters = <<>>
    /\ mapping = <<>>
    /\ physicians = <<>>
    /\ report = <<>>
    /\ error = None
    /\ initial_edges = 0
    /\ edges_removed = 0
    /\ hash_order = <<>>

\* One iteration of find_matches' loop, on the pair (records[1], records[2]).
ScorePair ==
    /\ pc = "score"
    /\ pairs' = <<records>>
    /\ match_results' = <<MatchResultOf(records[1], records[2], config)>>
    /\ pc' = "done"
    /\ UNCHANGED <<hash_order, records, config, matches, G, conflicts_resolved,
                   iterations, clusters, mapping, physicians, report, error,
                   initial_edges, edges_removed>>

NextScore == ScorePair

SpecScore == InitScore /\ [][NextScore]_vars

(***************************************************************************)
(* The classification run: classify_match on a SimilarityScores the caller *)
(* built, under thresholds the caller chose.                               *)
(***************************************************************************)
\* Overall scores at, next to and away from the thresholds.
OverallScores == {0, 1, 2999, 3000, 3001, 5000, 8499, 8500, 8501, 9999, 10000}

ThresholdValues == {0, DefaultNonMatchThreshold, 5000, DefaultMatchThreshold, 10000}

InputScores ==
    [npi_match : {NoScore, 0, 10000}, name_similarity : {5000},
     specialty_match : {NoScore}, location_score : {2000},
     overall_score : OverallScores]

InitClassify ==
    /\ pc = "classify"
    /\ config \in [run : {"classify"}, match_threshold : ThresholdValues,
                   non_match_threshold : ThresholdValues]
    /\ \E s \in InputScores :
          match_results = <<[scores |-> s, decision |-> None, confidence |-> <<>>,
                             error |-> None]>>
    /\ records = <<>>
    /\ pairs = <<>>
    /\ matches = <<>>
    /\ G = EmptyGraph
    /\ conflicts_resolved = 0
    /\ iterations = 0
    /\ clusters = <<>>
    /\ mapping = <<>>
    /\ physicians = <<>>
    /\ report = <<>>
    /\ error = None
    /\ initial_edges = 0
    /\ edges_removed = 0
    /\ hash_order = <<>>

\* decision, confidence = classify_match(scores, config)
ClassifyMatch ==
    /\ pc = "classify"
    /\ LET c == classify_match(match_results[1].scores, config)
       IN match_results' = <<[match_results[1] EXCEPT !.decision = c.decision,
                                                       !.confidence = c.confidence,
                                                       !.error = c.error]>>
    /\ pc' = "done"
    /\ UNCHANGED <<hash_order, records, config, pairs, matches, G, conflicts_resolved,
                   iterations, clusters, mapping, physicians, report, error,
                   initial_edges, edges_removed>>

NextClassify == ClassifyMatch

SpecClassify == InitClassify /\ [][NextClassify]_vars

(***************************************************************************)
(* The graph-building run: build_identity_graph on records and a list of   *)
(* confirmed matches that may name ids of no record.                       *)
(***************************************************************************)
\* The most confirmed matches a graph-building run is given.
MaxMatches == 2

\* "z" is the source id of no record.
MatchIds == RecIds \cup {"z"}

MatchTuples == {<<x, y, w>> : x \in MatchIds, y \in MatchIds, w \in {3500, 9000}}

BuildAttrs ==
    [source : {"cms"}, npi : {NpiX}, name_first : {"JOHN"}, name_last : {"SMITH"},
     specialty : {None}, facility_state : {"MA"}]

\* get_confirmed_matches yields one tuple per candidate pair, and candidate
\* pairs are distinct pairs of distinct records.
DistinctPairs(ms) ==
    /\ \A i \in DOMAIN ms : ms[i][1] # ms[i][2]
    /\ \A i, j \in DOMAIN ms : i # j => {ms[i][1], ms[i][2]} # {ms[j][1], ms[j][2]}

InitBuild ==
    /\ pc = "build_graph"
    /\ \E o \in IdLists : \E f \in [DOMAIN o -> BuildAttrs] :
          records = RecordList(o, f)
    /\ \E n \in 0..MaxMatches : \E ms \in [1..n -> MatchTuples] :
          DistinctPairs(ms) /\ matches = ms
    /\ config \in [run : {"build"}]
    /\ pairs = <<>>
    /\ match_results = <<>>
    /\ G = EmptyGraph
    /\ conflicts_resolved = 0
    /\ iterations = 0
    /\ clusters = <<>>
    /\ mapping = <<>>
    /\ physicians = <<>>
    /\ report = <<>>
    /\ error = None
    /\ initial_edges = 0
    /\ edges_removed = 0
    /\ hash_order = <<>>

\* G = build_identity_graph(records, matches)
BuildIdentityGraph ==
    /\ pc = "build_graph"
    /\ G' = build_identity_graph(records, matches)
    /\ pc' = IF config.run = "build" THEN "done" ELSE "prune_low"
    /\ UNCHANGED <<hash_order, records, config, pairs, match_results, matches,
                   conflicts_resolved, iterations, clusters, mapping, physicians,
                   report, error, initial_edges, edges_removed>>

NextBuild == BuildIdentityGraph

SpecBuild == InitBuild /\ [][NextBuild]_vars

(***************************************************************************)
(* The canonicalization run: find_clusters, assign_canonical_ids,          *)
(* merge_all_clusters and generate_cluster_report on a graph the caller    *)
(* built.                                                                  *)
(***************************************************************************)
\* The orders in which a process can iterate a set of the given ids.
HashOrders(ids) ==
    {o \in [1..Cardinality(ids) -> ids] : \A i, j \in DOMAIN o : i # j => o[i] # o[j]}

InitCanon ==
    /\ pc = "find_clusters"
    /\ config \in [run : {"canon"}]
    /\ \/ G = EmptyGraph /\ hash_order = <<>>
       \/ /\ \E a \in SortedNodeAttrs : \E es \in EdgeSets :
                G = [nodes |-> Ids, attr |-> a, weight |-> [e \in es |-> 9000]]
          /\ hash_order \in HashOrders(Range(Ids))
    /\ records = <<>>
    /\ pairs = <<>>
    /\ match_results = <<>>
    /\ matches = <<>>
    /\ conflicts_resolved = 0
    /\ iterations = 0
    /\ clusters = <<>>
    /\ mapping = <<>>
    /\ physicians = <<>>
    /\ report = <<>>
    /\ error = None
    /\ initial_edges = 0
    /\ edges_removed = 0

\* canonical_mapping = assign_canonical_ids(G, clusters)
AssignCanonicalIds ==
    /\ pc = "assign_ids"
    /\ \E m \in assign_canonical_ids(G, clusters) : mapping' = m
    /\ pc' = "merge"
    /\ UNCHANGED <<hash_order, records, config, pairs, match_results, matches, G,
                   conflicts_resolved, iterations, clusters, physicians, report, error,
                   initial_edges, edges_removed>>

\* canonical_physicians = merge_all_clusters(G, clusters).  The statistics
\* logged after the loop divide by len(physicians) (merge.py line 202).
MergeAllClusters ==
    /\ pc = "merge"
    /\ IF Len(clusters) = 0
       THEN /\ error' = "ZeroDivisionError"
            /\ pc' = "failed"
            /\ physicians' = physicians
       ELSE /\ \E ps \in MergedUpTo(G, clusters, Len(clusters)) : physicians' = ps
            /\ pc' = "report"
            /\ error' = error
    /\ UNCHANGED <<hash_order, records, config, pairs, match_results, matches, G,
                   conflicts_resolved, iterations, clusters, mapping, report,
                   initial_edges, edges_removed>>

\* generate_cluster_report(G, clusters, canonical_physicians)
GenerateClusterReport ==
    /\ pc = "report"
    /\ report' = generate_cluster_report(G, clusters, physicians)
    /\ pc' = "done"
    /\ UNCHANGED <<hash_order, records, config, pairs, match_results, matches, G,
                   conflicts_resolved, iterations, clusters, mapping, physicians,
                   error, initial_edges, edges_removed>>

NextCanon ==
    \/ FindClusters
    \/ AssignCanonicalIds
    \/ MergeAllClusters
    \/ GenerateClusterReport

SpecCanon == InitCanon /\ [][NextCanon]_vars

(***************************************************************************)
(* The splitting run: suggest_cluster_splits on a graph, a set of its      *)
(* nodes and a threshold; `clusters` holds the set, `report` the list      *)
(* returned.                                                               *)
(***************************************************************************)
DefaultSplitThreshold == 5000
SplitThresholds == {3500, DefaultSplitThreshold}

InitSplits ==
    /\ pc = "suggest_splits"
    /\ records = <<>>
    /\ config \in [run : {"splits"}, threshold : SplitThresholds]
    /\ pairs = <<>>
    /\ match_results = <<>>
    /\ matches = <<>>
    /\ \E es \in EdgeSets : \E w \in [es -> QualityWeights] :
          G = [nodes |-> Ids,
               attr |-> [n \in Range(Ids) |->
                           [npi |-> None, source |-> "cms", facility_state |-> None,
                            specialty |-> None]],
               weight |-> w]
    /\ conflicts_resolved = 0
    /\ iterations = 0
    /\ \E cluster \in (SUBSET Range(Ids)) \ {{}} : clusters = <<cluster>>
    /\ mapping = <<>>
    /\ physicians = <<>>
    /\ report = <<>>
    /\ error = None
    /\ initial_edges = 0
    /\ edges_removed = 0
    /\ hash_order \in HashOrders(Range(Ids))

SuggestClusterSplits ==
    /\ pc = "suggest_splits"
    /\ LET r == suggest_cluster_splits(G, clusters[1], hash_order, config.threshold)
       IN /\ G' = r.G
          /\ report' = r.result
    /\ pc' = "done"
    /\ UNCHANGED <<hash_order, records, config, pairs, match_results, matches,
                   conflicts_resolved, iterations, clusters, mapping, physicians,
                   error, initial_edges, edges_removed>>

NextSplits == SuggestClusterSplits

SpecSplits == InitSplits /\ [][NextSplits]_vars

(***************************************************************************)
(* run_pipeline's core sequence on a list of records.                      *)
(***************************************************************************)
PipelineAttrs ==
    [source : {"cms"}, npi : {None, NpiX, NpiY}, name_first : {"JOHN"},
     name_last : {"SMITH", "SMYTH"}, specialty : {None}, facility_state : {"MA"}]

PipelineConfigs ==
    [run : {"pipeline"},
     match_threshold : {DefaultMatchThreshold},
     non_match_threshold : {DefaultNonMatchThreshold},
     min_edge_weight : {DefaultMinEdgeWeight},
     max_cluster_size : {2},
     prune_conflicts : BOOLEAN,
     use_soundex_blocking : BOOLEAN,
     include_uncertain_matches : BOOLEAN]

Init ==
    /\ pc = "find_matches"
    /\ \E o \in IdLists : \E f \in [DOMAIN o -> PipelineAttrs] :
          /\ records = RecordList(o, f)
          /\ hash_order \in HashOrders(Range(o))
    /\ config \in PipelineConfigs
    /\ pairs = <<>>
    /\ match_results = <<>>
    /\ matches = <<>>
    /\ G = EmptyGraph
    /\ conflicts_resolved = 0
    /\ iterations = 0
    /\ clusters = <<>>
    /\ mapping = <<>>
    /\ physicians = <<>>
    /\ report = <<>>
    /\ error = None
    /\ initial_edges = 0
    /\ edges_removed = 0

\* match_results = find_matches(records, config); an exception of
\* classify_match ends the run.
FindMatches ==
    /\ pc = "find_matches"
    /\ LET results == find_matches(records, config)
           failed == {i \in DOMAIN results : results[i].error # None}
       IN IF failed = {}
          THEN /\ pairs' = get_candidate_pairs(records, config.use_soundex_blocking)
               /\ match_results' = results
               /\ pc' = "get_confirmed"
               /\ error' = error
          ELSE /\ pairs' = get_candidate_pairs(records, config.use_soundex_blocking)
               /\ match_results' = match_results
               /\ pc' = "failed"
               /\ error' = results[SetMin(failed)].error
    /\ UNCHANGED <<hash_order, records, config, matches, G, conflicts_resolved,
                   iterations, clusters, mapping, physicians, report, initial_edges,
                   edges_removed>>

\* matches = get_confirmed_matches(match_results, include_uncertain=...)
GetConfirmedMatches ==
    /\ pc = "get_confirmed"
    /\ matches' = get_confirmed_matches(match_results, config.include_uncertain_matches)
    /\ pc' = "build_graph"
    /\ UNCHANGED <<hash_order, records, config, pairs, match_results, G,
                   conflicts_resolved, iterations, clusters, mapping, physicians,
                   report, error, initial_edges, edges_removed>>

Next ==
    \/ FindMatches
    \/ GetConfirmedMatches
    \/ BuildIdentityGraph
    \/ PruneLowConfidenceEdges
    \/ PruneNpiConflictsPass
    \/ PruneOversizedPass
    \/ PruneWeakBridges
    \/ FindClusters
    \/ AssignCanonicalIds
    \/ MergeAllClusters
    \/ GenerateClusterReport

Spec == Init /\ [][Next]_vars

(***************************************************************************)
(* The properties.                                                         *)
(***************************************************************************)
\* full_pruning_pipeline has returned.
Pruned == pc \in {"find_clusters", "analyze_quality", "assign_ids", "merge", "report", "done"}

WellFormedNpis(g, cluster) == {g.attr[n].npi : n \in cluster} \cap {v \in NpiValues : WellFormed(v)}

\* C1: after full_pruning_pipeline has returned with NPI-conflict pruning
\* enabled, every cluster of find_clusters(G) holds at most one distinct
\* well-formed NPI.
C1_NpiConflictFree ==
    (Pruned /\ config.prune_conflicts) =>
        \A i \in DOMAIN find_clusters(G) :
            Cardinality(WellFormedNpis(G, find_clusters(G)[i])) <= 1

\* C1's case: the pipeline returned after the conflict loop removed an
\* edge, and a cluster of several records with a well-formed NPI is left.
C1_Witness ==
    /\ pc = "done"
    /\ config.prune_conflicts
    /\ conflicts_resolved > 0
    /\ \E i \in DOMAIN clusters :
          Cardinality(clusters[i]) >= 2 /\ WellFormedNpis(G, clusters[i]) # {}
    /\ \E n, m \in NodeSet(G) : {G.attr[n].npi, G.attr[m].npi} = {NpiX, NpiY}

\* C2: at every point of the run the clusters of find_clusters(G) are
\* non-empty, pairwise disjoint, and their union is the node set.
C2_Partition ==
    LET cs == find_clusters(G)
    IN /\ \A i \in DOMAIN cs : cs[i] # {}
       /\ \A i, j \in DOMAIN cs : i # j => cs[i] \cap cs[j] = {}
       /\ UNION Range(cs) = NodeSet(G)

\* C2's case: between two pruning steps, after an edge was removed, with
\* a cluster of several nodes beside other clusters.
C2_Witness ==
    /\ pc = "prune_oversized"
    /\ conflicts_resolved > 0
    /\ Len(find_clusters(G)) >= 2
    /\ Cardinality(find_clusters(G)[1]) >= 2

\* C8: when the oversized-cluster loop has used up its iteration cap and a
\* cluster of more than max_cluster_size nodes is left, the ClusterQuality
\* of that cluster carries a warning.
C8_CapExhaustionFlagged ==
    (pc = "done" /\ config.run = "prune" /\ iterations >= MaxIterations) =>
        \A i \in DOMAIN clusters :
            Cardinality(clusters[i]) > config.max_cluster_size => report[i].warnings # {}

\* The unordered pairs of source ids among the candidate pairs.
PairIds == {{pairs[i][1].source_id, pairs[i][2].source_id} : i \in DOMAIN pairs}

\* Two records share the key of a blocking pass.
SameBlock(k1, k2) == k1 # NoKey /\ k1 = k2

\* C3: once get_candidate_pairs has returned, every two distinct records
\* that share the key of an enabled blocking pass are a candidate pair.
C3_AllIntraGroupPairs ==
    (pc = "done" /\ config.run = "block") =>
        \A i, j \in DOMAIN records :
            (/\ i # j
             /\ \/ SameBlock(NpiKey(records[i]), NpiKey(records[j]))
                \/ SameBlock(LastNameStateKey(records[i]), LastNameStateKey(records[j]))
                \/ config.use_soundex_blocking
                     /\ SameBlock(SoundexStateKey(records[i]), SoundexStateKey(records[j])))
            => {records[i].source_id, records[j].source_id} \in PairIds

\* C4: when both records of a scored pair carry a well-formed NPI, equal
\* NPIs give overall_score 0.95 and the decision Match, and different NPIs
\* give overall_score 0.0 and the decision NonMatch, under every threshold
\* configuration.
C4_NpiOverride ==
    (pc = "done" /\ config.run = "score") =>
        \A i \in DOMAIN match_results :
            LET m == match_results[i]
                npi1 == pairs[i][1].npi
                npi2 == pairs[i][2].npi
            IN (WellFormed(npi1) /\ WellFormed(npi2)) =>
                  IF npi1 = npi2
                  THEN m.scores.overall_score = 9500 /\ m.decision = "match"
                  ELSE m.scores.overall_score = 0 /\ m.decision = "non_match"

\* C4's case: equal well-formed NPIs on a pair whose names differ, under a
\* match threshold above 0.95.
C4_Witness ==
    /\ pc = "done"
    /\ config.run = "score"
    /\ config.match_threshold > 9500
    /\ records[1].npi = NpiX
    /\ records[2].npi = NpiX
    /\ records[1].name_last # records[2].name_last
    /\ match_results[1].decision = "match"

\* The source ids of the records.
RecordIds == {records[i].source_id : i \in DOMAIN records}

\* The confirmed matches whose two ids are both record ids.
MatchesOnRecords == {i \in DOMAIN matches : {matches[i][1], matches[i][2]} \subseteq RecordIds}

\* C5: the graph build_identity_graph returns has exactly one node per
\* record source id, and its edges are exactly the confirmed matches whose
\* two ids are record ids, each with the weight of its match; a match that
\* names another id adds no node and no edge.
C5_GraphFromMatches ==
    (pc = "done" /\ config.run = "build") =>
        /\ NodeSet(G) = RecordIds
        /\ Len(G.nodes) = Cardinality(RecordIds)
        /\ Edges(G) = {{matches[i][1], matches[i][2]} : i \in MatchesOnRecords}
        /\ \A i \in MatchesOnRecords : G.weight[{matches[i][1], matches[i][2]}] = matches[i][3]

\* C5's case: a graph built from a match between two records and a match
\* that names an id of no record.
C5_Witness ==
    /\ pc = "done"
    /\ config.run = "build"
    /\ MatchesOnRecords # {}
    /\ MatchesOnRecords # DOMAIN matches
    /\ Edges(G) # {}

\* C6: build_identity_graph ends in an error, returning no graph, when a
\* confirmed match names a source id that no record carries.
C6_MissingIdFailsLoudly ==
    (config.run = "build" /\ pc # "build_graph" /\ MatchesOnRecords # DOMAIN matches) =>
        error # None /\ G = EmptyGraph

\* C7: on an empty list of records the core sequence of run_pipeline, from
\* find_matches to generate_cluster_report, ends without an exception.
C7_EmptyInputCompletes ==
    (config.run = "pipeline" /\ records = <<>>) => (error = None /\ pc # "failed")

\* assign_canonical_ids has returned.
Assigned == pc \in {"merge", "report", "done", "failed"}

\* C9: the keys of the mapping assign_canonical_ids returns are the source
\* ids of the clusters, and two source ids of one cluster have the same
\* canonical id.
C9_MappingCoversClusters ==
    (config.run = "canon" /\ Assigned) =>
        /\ DOMAIN mapping = UNION Range(clusters)
        /\ \A i \in DOMAIN clusters : \A n, m \in clusters[i] : mapping[n] = mapping[m]

\* C9's case: several clusters, one of them of several records without a
\* well-formed NPI, whose id is drawn at random.
C9_Witness ==
    /\ config.run = "canon"
    /\ pc = "merge"
    /\ Len(clusters) >= 2
    /\ \E i \in DOMAIN clusters :
          /\ Cardinality(clusters[i]) >= 2
          /\ WellFormedNpis(G, clusters[i]) = {}
          /\ \A n \in clusters[i] : mapping[n][2] \in RandomHex

\* The well-formed NPIs that the most records of the cluster carry.
MostFrequentWellFormed(g, cluster) ==
    LET n(v) == Cardinality({x \in cluster : g.attr[x].npi = v})
    IN {v \in WellFormedNpis(g, cluster) : \A u \in WellFormedNpis(g, cluster) : n(v) >= n(u)}

\* C10: the canonical id of a cluster is PHY_ and a most frequent
\* well-formed NPI of the cluster when it has one, and PHY_ and a random
\* hex string otherwise; it never holds a malformed NPI.
C10_CanonicalIdFromNpi ==
    (config.run = "canon" /\ Assigned) =>
        \A i \in DOMAIN clusters : \A n \in clusters[i] :
            /\ mapping[n][1] = "PHY_"
            /\ IF WellFormedNpis(G, clusters[i]) # {}
               THEN mapping[n][2] \in MostFrequentWellFormed(G, clusters[i])
               ELSE mapping[n][2] \in RandomHex
            /\ mapping[n][2] \notin {NpiBad, NpiXPadded}

\* C10's case: a cluster with a malformed NPI and two well-formed NPIs, one
\* more frequent than the other, mapped to the more frequent one.
C10_Witness ==
    /\ config.run = "canon"
    /\ pc = "merge"
    /\ \E i \in DOMAIN clusters :
          /\ \E n \in clusters[i] : G.attr[n].npi = NpiBad
          /\ WellFormedNpis(G, clusters[i]) = {NpiX, NpiY}
          /\ Cardinality(MostFrequentWellFormed(G, clusters[i])) = 1
          /\ \A n \in clusters[i] : mapping[n][2] \in MostFrequentWellFormed(G, clusters[i])

\* merge_all_clusters has returned.
Merged == pc \in {"report", "done"}

\* C11: merge_all_clusters returns one CanonicalPhysician per cluster; its
\* source_records are the members of the cluster and its source_count is
\* the size of the cluster, at least 1, so that the source_counts sum to the
\* number of records; its npi is the one well-formed NPI of the cluster
\* when the cluster's records carry exactly one.
C11_OnePhysicianPerCluster ==
    (config.run = "canon" /\ Merged) =>
        /\ Len(physicians) = Len(clusters)
        /\ \A i \in DOMAIN clusters :
              /\ physicians[i].source_records = clusters[i]
              /\ physicians[i].source_count = Cardinality(clusters[i])
              /\ physicians[i].source_count >= 1
              /\ Cardinality(WellFormedNpis(G, clusters[i])) = 1 =>
                    physicians[i].npi \in WellFormedNpis(G, clusters[i])
        /\ SumOver(DOMAIN physicians, [i \in DOMAIN physicians |-> physicians[i].source_count])
              = Len(G.nodes)

\* C11's case: several clusters were merged, one of them with several
\* records that carry one well-formed NPI beside malformed ones.
C11_Witness ==
    /\ config.run = "canon"
    /\ pc = "report"
    /\ Len(physicians) >= 2
    /\ \E i \in DOMAIN clusters :
          /\ Cardinality(clusters[i]) >= 3
          /\ WellFormedNpis(G, clusters[i]) = {NpiX}
          /\ Cardinality({n \in clusters[i] : G.attr[n].npi = NpiBad}) >= 2
          /\ physicians[i].npi = NpiX

\* C12: when the NPI comparison is unknown and
\* 0 < non_match_threshold < match_threshold < 1, classify_match decides
\* Match exactly for overall_score >= match_threshold, NonMatch exactly for
\* overall_score <= non_match_threshold and Uncertain exactly for the
\* scores strictly between; it decides one of the three.
C12_ThreeWayDecision ==
    (/\ pc = "done"
     /\ config.run = "classify"
     /\ match_results[1].scores.npi_match = NoScore
     /\ 0 < config.non_match_threshold
     /\ config.non_match_threshold < config.match_threshold
     /\ config.match_threshold < 10000) =>
        LET overall == match_results[1].scores.overall_score
            decision == match_results[1].decision
        IN /\ decision \in {"match", "non_match", "uncertain"}
           /\ decision = "match" <=> overall >= config.match_threshold
           /\ decision = "non_match" <=> overall <= config.non_match_threshold
           /\ decision = "uncertain" <=>
                 (config.non_match_threshold < overall /\ overall < config.match_threshold)

\* C12's case: a score equal to the match threshold, with the NPI
\* comparison unknown, was classified as a match.
C12_Witness ==
    /\ pc = "done"
    /\ config.run = "classify"
    /\ match_results[1].scores.npi_match = NoScore
    /\ config.non_match_threshold = DefaultNonMatchThreshold
    /\ config.match_threshold = DefaultMatchThreshold
    /\ match_results[1].scores.overall_score = config.match_threshold
    /\ match_results[1].decision = "match"

\* get_candidate_pairs has returned in a blocking run.
Blocked == pc = "done" /\ config.run = "block"

\* C13: no unordered pair of records occurs twice in the list
\* get_candidate_pairs returns.
C13_PairsUnique ==
    Blocked =>
        \A i, j \in DOMAIN pairs :
            i # j => {pairs[i][1].source_id, pairs[i][2].source_id}
                        # {pairs[j][1].source_id, pairs[j][2].source_id}

\* C13's case: two records that share an NPI, a last name and state, and
\* a phonetic code and state are a candidate pair, with all passes enabled.
C13_Witness ==
    /\ Blocked
    /\ config.use_soundex_blocking
    /\ \E i \in DOMAIN pairs :
          /\ SameBlock(NpiKey(pairs[i][1]), NpiKey(pairs[i][2]))
          /\ SameBlock(LastNameStateKey(pairs[i][1]), LastNameStateKey(pairs[i][2]))
          /\ SameBlock(SoundexStateKey(pairs[i][1]), SoundexStateKey(pairs[i][2]))

\* C14: in every pair get_candidate_pairs returns the first record has the
\* smaller source id.
C14_PairsOrdered ==
    Blocked =>
        \A i \in DOMAIN pairs : IdLess(pairs[i][1].source_id, pairs[i][2].source_id)

\* C14's case: a pair whose record of the larger source id comes first in
\* the input.
C14_Witness ==
    /\ Blocked
    /\ \E i \in DOMAIN pairs : \E m, n \in DOMAIN records :
          /\ m < n
          /\ records[m] = pairs[i][2]
          /\ records[n] = pairs[i][1]

\* The source-id pairs of a list of candidate pairs.
IdPairsOf(ps) == {{ps[i][1].source_id, ps[i][2].source_id} : i \in DOMAIN ps}

\* C15: with the phonetic pass disabled every candidate pair shares a
\* non-empty NPI or the (last name, state) key, and is also a candidate
\* pair of the same records with the pass enabled.
C15_SoundexFlag ==
    (Blocked /\ ~config.use_soundex_blocking) =>
        /\ \A i \in DOMAIN pairs :
              \/ SameBlock(NpiKey(pairs[i][1]), NpiKey(pairs[i][2]))
              \/ SameBlock(LastNameStateKey(pairs[i][1]), LastNameStateKey(pairs[i][2]))
        /\ PairIds \subseteq IdPairsOf(get_candidate_pairs(records, TRUE))

\* C15's case: with the pass disabled, two records that only the phonetic
\* pass groups are no candidate pair, beside a pair that was emitted.
C15_Witness ==
    /\ Blocked
    /\ ~config.use_soundex_blocking
    /\ pairs # <<>>
    /\ \E m, n \in DOMAIN records :
          /\ SameBlock(SoundexStateKey(records[m]), SoundexStateKey(records[n]))
          /\ ~SameBlock(LastNameStateKey(records[m]), LastNameStateKey(records[n]))
          /\ ~SameBlock(NpiKey(records[m]), NpiKey(records[n]))
          /\ {records[m].source_id, records[n].source_id} \notin PairIds

Assessed == pc = "done" /\ config.run = "quality"

\* The distinct NPI values the nodes of a cluster carry.
CarriedNpis(cluster) == {G.attr[n].npi : n \in cluster} \ {None}

\* C16: a cluster whose nodes carry two or more distinct NPI values is
\* reported with npi_conflict true and a quality score of 0.1, whatever its
\* edges, weights, size, states and specialties; every other cluster is
\* reported with npi_conflict false.
C16_ConflictShortCircuits ==
    Assessed =>
        \A i \in DOMAIN clusters :
            IF Cardinality(CarriedNpis(clusters[i])) >= 2
            THEN /\ report[i].npi_conflict
                 /\ 10 * report[i].quality_score[1] = report[i].quality_score[2]
            ELSE ~report[i].npi_conflict

\* A conflicting cluster of three nodes in two states and two specialties,
\* joined by edges of both weights, is scored 0.1.
C16_Witness ==
    /\ Assessed
    /\ \E i \in DOMAIN clusters :
          /\ Cardinality(clusters[i]) = 3
          /\ Cardinality(CarriedNpis(clusters[i])) >= 2
          /\ report[i].state_count = 2
          /\ report[i].specialty_count = 2
          /\ {G.weight[e] : e \in SubgraphEdges(G, clusters[i])} = QualityWeights
          /\ report[i].npi_conflict
          /\ report[i].quality_score = <<1, 10>>

\* u and v are joined by a path over the edges es.
Joined(es, u, v) == v \in PlainBfs(es, {u}, {u})

\* The edges inside a cluster that are not weak bridges of it: an edge is
\* a weak bridge when its weight is below the threshold and its ends are
\* not joined without it.
KeptEdges(g, cluster, threshold) ==
    LET es == {e \in Edges(g) : e \subseteq cluster}
    IN {e \in es : ~ /\ g.weight[e] < threshold
                      /\ \E u \in e : \E v \in e \ {u} : ~Joined(es \ {e}, u, v)}

\* C17: suggest_cluster_splits leaves the graph's nodes, edges and weights
\* as they were, and returns the connected components of the cluster
\* without its weak bridges, each once: non-empty, pairwise disjoint sets
\* whose union is the cluster.
C17_SplitsDoNotMutate ==
    [][pc = "suggest_splits" =>
        LET cluster == clusters[1]
            kept == KeptEdges(G, cluster, config.threshold)
        IN /\ G' = G
           /\ Range(report') = {{v \in cluster : Joined(kept, u, v)} : u \in cluster}
           /\ \A i, j \in DOMAIN report' : i # j => report'[i] \cap report'[j] = {}
           /\ \A i \in DOMAIN report' : report'[i] # {}
           /\ UNION Range(report') = cluster]_vars

\* A cluster held together by a weak bridge and a strong one is split at
\* the weak bridge only; the graph still has the weak bridge.
C17_Witness ==
    /\ pc = "done" /\ config.run = "splits"
    /\ Len(report) = 2
    /\ Cardinality(clusters[1]) = 3
    /\ \E e \in Edges(G) : /\ e \subseteq clusters[1]
                            /\ G.weight[e] < config.threshold
                            /\ \A i \in DOMAIN report : ~(e \subseteq report[i])
    /\ \E e \in Edges(G) : \E i \in DOMAIN report :
          e \subseteq report[i] /\ G.weight[e] >= config.threshold

Scored == pc = "done" /\ config.run = "score"

ConflictingComponents ==
    {c \in Range(connected_components(G)) : Cardinality(CarriedNpis(c)) >= 2}

\* C19: prune_npi_conflicts terminates: a pass that finds a component with
\* an NPI conflict removes one edge of such a component and the loop goes
\* on; a pass that finds none leaves the graph and ends the loop; and the
\* loop is always left.
C19_ConflictLoopTerminates ==
    /\ [][pc = "prune_npi" =>
            IF ConflictingComponents = {}
            THEN pc' # "prune_npi" /\ G' = G
            ELSE /\ pc' = "prune_npi"
                 /\ \E c \in ConflictingComponents : \E e \in SubgraphEdges(G, c) :
                       G' = RemoveEdges(G, {e})]_vars
    /\ (pc = "prune_npi" ~> pc # "prune_npi")

\* The loop was left after two passes that each removed an edge.
C19_Witness ==
    /\ config.run = "conflicts"
    /\ pc = "done"
    /\ conflicts_resolved = 2
    /\ ConflictingComponents = {}

\* An edge crosses between NPI groups: one end carries an NPI and the
\* other end carries a different NPI or none.
Crosses(e) ==
    \E u \in e : \E v \in e \ {u} :
        G.attr[u].npi # None /\ G.attr[v].npi # G.attr[u].npi

\* C20: an edge removed by a pass of prune_npi_conflicts crosses between
\* NPI groups and no crossing edge of its component weighs less; an edge
\* whose two ends carry the same NPI is not removed.
C20_RemovedEdgeCrosses ==
    [][pc = "prune_npi" =>
        \A e \in Edges(G) \ Edges(G') :
            /\ Crosses(e)
            /\ \A c \in ConflictingComponents : \A f \in SubgraphEdges(G, c) :
                  (e \subseteq c /\ Crosses(f)) => G.weight[e] <= G.weight[f]]_vars

\* The distinct well-formed NPI values the nodes of a cluster carry.
WellFormedNpisOf(cluster) == {v \in CarriedNpis(cluster) : WellFormed(v)}

\* C21: a pass of prune_npi_conflicts removes an edge only from a
\* component that holds two or more distinct well-formed NPIs; a component
\* with at most one, whatever malformed values its nodes carry, keeps its
\* edges.
C21_OnlyWellFormedConflicts ==
    [][pc = "prune_npi" =>
        \A e \in Edges(G) \ Edges(G') :
            \A c \in Range(connected_components(G)) :
                e \subseteq c => Cardinality(WellFormedNpisOf(c)) >= 2]_vars

\* The components of a graph with more than max_cluster_size nodes.
OversizedComponents(g) ==
    {c \in Range(connected_components(g)) : Cardinality(c) > config.max_cluster_size}

WeakBridgesOfLargeComponents(g, threshold) ==
    {e \in Edges(g) :
        /\ g.weight[e] < threshold
        /\ \E u \in e : \E v \in e \ {u} :
              /\ ~Joined(Edges(g) \ {e}, u, v)
              /\ Cardinality(PlainBfs(Edges(g), {u}, {u})) > 2}

\* C23: prune_weak_bridges removes exactly the bridges below the threshold
\* that lie in a component of more than two nodes of the graph it is
\* given, changes nothing else, and leaves no such bridge behind.
C23_ExactlyWeakBridges ==
    [][pc = "prune_bridges" =>
        /\ G' = RemoveEdges(G, WeakBridgesOfLargeComponents(G, config.min_edge_weight))
        /\ WeakBridgesOfLargeComponents(G', config.min_edge_weight) = {}]_vars

\* One weak bridge was removed from a component of more than two nodes;
\* the bridge at or above the threshold is still there.
C23_Witness ==
    /\ pc = "find_clusters"
    /\ config.run = "prune"
    /\ edges_removed = 1
    /\ initial_edges = 2
    /\ Cardinality(Edges(G)) = 1
    /\ \A e \in Edges(G) : G.weight[e] >= config.min_edge_weight

InPruning == pc \in {"prune_low", "prune_npi", "prune_oversized", "prune_bridges"}

\* Every component carries at most one distinct NPI and has at most
\* max_cluster_size nodes, and every edge weighs at least min_edge_weight.
NothingToPrune ==
    /\ \A c \in Range(connected_components(G)) :
          /\ Cardinality(CarriedNpis(c)) <= 1
          /\ Cardinality(c) <= config.max_cluster_size
    /\ \A e \in Edges(G) : G.weight[e] >= config.min_edge_weight

\* C24: on a graph with nothing to prune no step of full_pruning_pipeline
\* removes an edge, and the clusters found afterwards are its components.
C24_CleanGraphUntouched ==
    [][(config.run = "prune" /\ NothingToPrune) =>
          /\ InPruning => G' = G
          /\ pc = "find_clusters" =>
                Range(clusters') = Range(connected_components(G))]_vars

\* Two records with the same NPI and one without, all three joined to one
\* another, are one cluster after pruning, with all three edges.
C24_Witness ==
    /\ pc = "done"
    /\ config.run = "prune"
    /\ config.prune_conflicts
    /\ initial_edges = 3
    /\ Cardinality(Edges(G)) = 3
    /\ \E i \in DOMAIN clusters :
          /\ Cardinality(clusters[i]) = 3
          /\ {G.attr[n].npi : n \in clusters[i]} = {None, NpiX}
          /\ Cardinality({n \in clusters[i] : G.attr[n].npi = NpiX}) = 2

\* The edges whose two ends carry different NPI values.
CrossNpiEdges(g) == {e \in Edges(g) : \E u, v \in e : g.attr[u].npi # g.attr[v].npi}

\* The nodes that carry the NPI value v.
NpiGroup(v) == {n \in NodeSet(G) : G.attr[n].npi = v}

\* Every node carries an NPI, the nodes of each NPI are connected by
\* same-NPI edges of weight at least min_edge_weight, and every cross-NPI
\* edge is lighter than every same-NPI edge.
NpiGroupsWellJoined ==
    LET same == Edges(G) \ CrossNpiEdges(G)
    IN /\ \A n \in NodeSet(G) : G.attr[n].npi # None
       /\ \A e \in same : G.weight[e] >= config.min_edge_weight
       /\ \A u, v \in NodeSet(G) : G.attr[u].npi = G.attr[v].npi => Joined(same, u, v)
       /\ \A e \in CrossNpiEdges(G) : \A f \in same : G.weight[e] < G.weight[f]

\* Pruning such a graph: every step removes cross-NPI edges only, none of
\* them is left at the end, and the clusters are the NPI groups.
OnlyCrossNpiEdgesGo ==
    /\ InPruning => \E es \in SUBSET CrossNpiEdges(G) : G' = RemoveEdges(G, es)
    /\ pc = "find_clusters" =>
          /\ CrossNpiEdges(G) = {}
          /\ Range(clusters') = {NpiGroup(G.attr[n].npi) : n \in NodeSet(G)}
          /\ Len(clusters') = Cardinality(Range(clusters'))

\* C25 as stated: on a graph whose NPI groups are well joined, the full
\* pruning pipeline removes exactly the cross-NPI edges and leaves one
\* cluster per NPI.
C25_AsStated ==
    [][(config.run = "prune" /\ NpiGroupsWellJoined) => OnlyCrossNpiEdgesGo]_vars

\* C25, amended: the same, when NPI-conflict resolution is switched on and
\* no NPI group has more than max_cluster_size nodes.
C25_OneClusterPerNpi ==
    [][(/\ config.run = "prune"
        /\ config.prune_conflicts
        /\ \A n \in NodeSet(G) :
              Cardinality(NpiGroup(G.attr[n].npi)) <= config.max_cluster_size
        /\ NpiGroupsWellJoined) => OnlyCrossNpiEdgesGo]_vars

\* Two pairs of records, one pair per NPI, joined by one lighter edge:
\* the lighter edge is gone and each pair is a cluster.
C25_Witness ==
    /\ pc = "done"
    /\ config.run = "prune"
    /\ config.prune_conflicts
    /\ initial_edges = 3
    /\ Cardinality(Edges(G)) = 2
    /\ conflicts_resolved = 1
    /\ Len(clusters) = 2
    /\ \A i \in DOMAIN clusters :
          /\ Cardinality(clusters[i]) = 2
          /\ \E v \in {NpiX, NpiY} : \A n \in clusters[i] : G.attr[n].npi = v

\* C26: for every final cluster, with or without a well-formed NPI, the id
\* that assign_canonical_ids gives the cluster's source ids is the
\* canonical_id of the physician merge_all_clusters builds for that cluster,
\* so every id of the mapping names an exported physician.
C26_MappingNamesPhysician ==
    Merged =>
        /\ \A i \in DOMAIN clusters : \A s \in clusters[i] :
               mapping[s] = physicians[i].canonical_id
        /\ \A s \in DOMAIN mapping : \E i \in DOMAIN physicians :
               physicians[i].canonical_id = mapping[s]

\* The canonical id given to a cluster: the id its members are mapped to.
IdOfCluster(i) == mapping[CHOOSE s \in clusters[i] : TRUE]

\* C27: after matching, graph building, pruning and clustering, two different
\* clusters never receive the same canonical id, so all records carrying one
\* well-formed NPI are under one canonical entity.  Ids drawn from uuid4 are
\* left out of the comparison: only ids derived from an NPI are compared.
C27_OneClusterPerCanonicalId ==
    Assigned /\ mapping # <<>> =>
        \A i, j \in DOMAIN clusters :
            /\ i # j
            /\ WellFormedNpis(G, clusters[i]) # {}
            /\ WellFormedNpis(G, clusters[j]) # {}
            => IdOfCluster(i) # IdOfCluster(j)

\* A run of full_pruning_pipeline on g with the parameters of config removes
\* no edge: step 1 finds no edge below its threshold, step 2 (when switched
\* on) no conflicting cluster, step 3 no oversized cluster and step 4 no
\* weak bridge.  Each step is given g as it is when the steps before it
\* remove nothing.
StepsAtRest(g) ==
    /\ prune_low_confidence_edges(g, config.min_edge_weight) = g
    /\ config.prune_conflicts => FirstConflict(g) = 0
    /\ Oversized(g, config.max_cluster_size) = <<>>
    /\ prune_weak_bridges(g, config.min_edge_weight) = g

\* C28: the graph full_pruning_pipeline returns is a fixed point of the
\* pipeline: a second run with the same parameters removes no edge,
\* provided the oversized loop did not end at its cap with an oversized
\* cluster left.
C28_OutputIsFixedPoint ==
    /\ pc = "find_clusters"
    /\ config.run = "prune"
    /\ iterations < MaxIterations \/ Oversized(G, config.max_cluster_size) = <<>>
    => StepsAtRest(G)

\* C28's case: the pipeline has returned after the oversized step and the
\* bridge step each removed an edge, and an edge is left.
C28_Witness ==
    /\ pc = "find_clusters"
    /\ config.run = "prune"
    /\ iterations = 1
    /\ edges_removed >= 1
    /\ Edges(G) # {}
    /\ Oversized(G, config.max_cluster_size) = <<>>

\* C29: every step of full_pruning_pipeline only deletes edges of the graph
\* it is given: the nodes, their order and their attributes stay, no edge is
\* added, a surviving edge keeps its weight, and every cluster after the
\* step lies inside one cluster before it; when the pipeline returns the
\* graph has at most the edges it was called with.
C29_PruningOnlyDeletesEdges ==
    [][InPruning =>
         /\ G'.nodes = G.nodes
         /\ G'.attr = G.attr
         /\ Edges(G') \subseteq Edges(G)
         /\ \A e \in Edges(G') : G'.weight[e] = G.weight[e]
         /\ \A c \in Range(connected_components(G')) :
                \E d \in Range(connected_components(G)) : c \subseteq d
         /\ pc = "prune_bridges" => Cardinality(Edges(G')) <= initial_edges]_vars

\* C29's case: the pipeline has returned from a graph of three edges after
\* step 3 and step 4 each removed one, with nodes left that carry no edge.
C29_Witness ==
    /\ pc = "find_clusters"
    /\ config.run = "prune"
    /\ initial_edges = 3
    /\ iterations = 1
    /\ edges_removed = 1
    /\ Cardinality(Edges(G)) = 1
    /\ NodeSet(G) # UNION Edges(G)

\* The results of find_matches for the pair of records an edge joins.
ResultsOf(e) ==
    {i \in DOMAIN match_results :
        {match_results[i].source_id_1, match_results[i].source_id_2} = e}

\* The identity graph of the pipeline has been built and not yet pruned.
Built == pc = "prune_low" /\ config.run = "pipeline"

====
